---------------------------- MODULE Spec2Model ----------------------------
(***************************************************************************)
(* A model of the earendil daemon's link layer: the onion peel-and-forward *)
(* engine, neighbour debt accounting, topology gossip, next-hop selection, *)
(* reply blocks and the link store.                                        *)
(*                                                                         *)
(* The source tree holds several generations of the daemon side by side    *)
(* (daemon.rs, daemon/peel_forward.rs, network.rs, link_node.rs).  Each is  *)
(* modelled by its own actions, and each specification below runs the       *)
(* actions of one of them.                                                  *)
(***************************************************************************)
EXTENDS Integers, Sequences, FiniteSets, TLC

(***************************************************************************)
(* Bounds of the model.                                                    *)
(***************************************************************************)
\* number of packets handed to the peel engine in one run of SpecPeel
MaxRecv == 2
\* the per-neighbour debt cap configured in SpecPeel
PeelCap == 0

(***************************************************************************)
(* Identities.                                                             *)
(***************************************************************************)
\* RelayFingerprint: totally ordered; the model uses 1..4
Fingerprints == 1..4
\* the fingerprint of this node's relay identity, when it has one
MyFp == 2
\* ClientId of the one client neighbour; 0 is reserved for "sender is a relay"
ClientIds == {7}
\* Option<T>: None, and Some(x)
None == <<>>
Some(x) == <<x>>
Option(S) == {None} \cup {Some(x) : x \in S}

\* NodeId::Relay(fp) and NodeId::Client(id)
Relay(fp) == <<"Relay", fp>>
Client(id) == <<"Client", id>>
NodeIds == {Relay(fp) : fp \in Fingerprints} \cup {Client(id) : id \in ClientIds}
\* the neighbours chatted with: a relay and a client that share a number
ChatNeighbors == {Relay(1), Client(1)}

(***************************************************************************)
(* Raw packets.  A RawPacket is an opaque fixed-size buffer; what one peel  *)
(* with this node's onion secret yields is a function of its bytes.  The    *)
(* model numbers the packets and fixes the result of peeling each.          *)
(***************************************************************************)
\* blake3::hash of the packet bytes (collision-free in the model)
Hash(pkt) == <<"blake3", pkt>>

\* the client_id a reply packet carries: that of the client neighbour for the
\* first four packets, 0 for the next four, that of no neighbour after them
reply_client_id(pkt) == IF pkt <= 4 THEN 7 ELSE IF pkt <= 8 THEN 0 ELSE 8

\* RawPacket::peel(my_onion_sk): packets repeat in groups of four kinds
peel(pkt) ==
    CASE pkt % 4 = 1 -> [kind |-> "Relay", next_peeler |-> 4, pkt |-> pkt + 1, delay_ms |-> 1]
      [] pkt % 4 = 2 -> [kind |-> "Received", from |-> 1, pkt |-> pkt]
      [] pkt % 4 = 3 -> [kind |-> "GarbledReply", id |-> pkt, pkt |-> pkt,
                         client_id |-> reply_client_id(pkt)]
      [] OTHER       -> [kind |-> "Err"]

VARIABLES
    \* ---- peel engine (daemon/peel_forward.rs) ----
    pkts_seen,      \* PKTS_SEEN: the hashes of the packets seen
    debts,          \* DEBTS: NodeId -> what the neighbour owes us
    debt_cap,       \* the configured per-neighbour cap
    task,           \* the peel_forward invocations in progress
    neigh_table,    \* NEIGH_TABLE_NEW: fingerprint -> queue of the link to that relay
    client_table,   \* CLIENT_TABLE: client id -> queue of the link to that client
    delay_queue,    \* DELAY_QUEUE: the (pkt, next_peeler, delay) scheduled
    incoming,       \* what relay_process_inner_pkt was given: (from, pkt)
    relay_graph,    \* RELAY_GRAPH
    \* ---- bookkeeping of the runs (not program state) ----
    handed,         \* number of packets handed to the engine
    effects,        \* packet -> number of its occurrences that had a side effect
    in_accepted,    \* NodeId -> packets accepted inbound from it
    out_sent,       \* NodeId -> packets sent outbound to it
    counted,        \* the packets counted against a neighbour's debt
    \* ---- gossip (daemon/inout_route) ----
    global_identity,\* MY_RELAY_IDENTITY: this node's fingerprint, None on a client
    gossip_pc,      \* relay neighbour -> the step its gossip_once loop is at
    sign_rpc,       \* relay neighbour -> whether gossip sent it a sign_adjacency RPC
    adj_paths,      \* the code paths that have inserted an adjacency so far
    \* ---- next-hop selection ----
    route_result,   \* the last call of a one_hop_closer function and what it returned
    \* ---- reply blocks (daemon.rs, link_node.rs) ----
    degarblers,     \* ctx.degarblers: the reply-block ids this node holds a degarbler for
    surbs_out,      \* the reply blocks handed to the other side, by id
    reply_pkts,     \* garbled replies on their way to this node: (id, body)
    delivered,      \* reply-block id -> the bodies delivered to the application
    \* ---- link store (link_node/link_store.rs) and LinkNode start-up ----
    misc,           \* table misc: key -> value
    chats,          \* table chats: the rows in rowid order
    running,        \* whether the LinkNode process is up
    my_id,          \* LinkNodeCtx.my_id
    boots,          \* number of times LinkNode::new has run
    written,        \* NodeId -> the chat entries written for it, in order
    last_snapshot,  \* the graph last handed to the store by save_relay_graph_loop
    loaded,         \* what the last LinkNode::new loaded, and the snapshot then in the store
    \* ---- the peel engine of network.rs ----
    now,            \* the clock (Instant::now), in units of delay
    timers,         \* the tasks spawned for peeled Relay packets, waiting on their timer
    relay_emitted,  \* the child packets sent on by those tasks, with when and what for
    panicked,       \* whether a task of the process has panicked
    \* ---- out-routes (daemon/inout_route.rs dial_out_route) ----
    dial_pc,        \* out-route -> where its dial_out_route task is
    remote_up,      \* out-route -> whether its remote can be reached
    links_made,     \* out-route -> number of links established so far (saturating)
    \* ---- two linked relays gossiping (gossip.rs, link_protocol_impl.rs) ----
    graph_of,       \* relay -> its RELAY_GRAPH
    tick_pc,        \* relay -> the step its gossip_once on the link is at
    sign_reply,     \* relay -> the answer to its sign_adjacency RPC, when it has one
    ticks_done,     \* relay -> number of its gossip_once calls that returned Ok (saturating)
    unix_time,      \* SystemTime::now() in seconds
    \* ---- LinkNode::send_backwards (link_node.rs) ----
    sb_calls,       \* the calls of send_backwards so far: reply block and result
    injected,       \* the LinkMessages send_backwards has put on the send_raw channel
    \* ---- table debts of the link store (link_node/link_store.rs) ----
    debt_table,     \* table debts: the rows in rowid order
    debt_written,   \* NodeId -> the deltas of the debt entries inserted for it, in order
    \* ---- concurrent calls of get_or_insert_misc (link_node/link_store.rs) ----
    goi_call,       \* caller -> where its call of get_or_insert_misc is, and its result
    \* ---- the process: main_daemon's route tasks, the RPC server's stubs ----
    daemon_up,      \* whether the daemon process is running
    route_task,     \* route task -> whether it runs, has ended, or was joined
    rpc_reply,      \* what the last call of a stubbed RPC method came to
    \* ---- a forward from a client through three relays (link_node.rs, network.rs) ----
    fwd_sent,       \* what send_forward made at the client: route and LinkMessage; None before
    send_raw_chan,  \* the client's send_raw channel
    wire,           \* relay -> the LinkMessages on their way to it, in order
    seen_at,        \* relay -> its PKTS_SEEN
    timers_at,      \* relay -> the timer tasks spawned there for peeled Relay packets
    handled_at,     \* relay -> the raw packets it took past the replay check, in order
    dropped_at,     \* relay -> number of raw packets it dropped as replays
    recv_at,        \* relay -> the IncomingMsgs recv() has returned there
    replays,        \* number of times the client's LinkMessage was sent to its first hop again
    \* ---- the inner packets of peel_forward_loop (daemon.rs) ----
    incoming_send,  \* the channel to the sockets: (msg, source), oldest first
    anon_destinations, \* ctx.anon_destinations: source -> its reply blocks, oldest first
    inner_calls,    \* the calls of process_inner_pkt so far: (source, inner)
    \* ---- the sign_adjacency RPC server (link_protocol_impl.rs) ----
    sign_call,      \* the last sign_adjacency request served and its answer; None before
    \* ---- the tasks raced by manage_mux (daemon/inout_route.rs) ----
    link_tasks,     \* out-route -> the tasks of its link's race that are running
    \* ---- who answered the handshake of an out-route (daemon/inout_route.rs) ----
    link_remote,    \* out-route -> the fingerprint its remote last presented; None before
    \* ---- the adjacencies RPC server (inout_route/link_protocol_impl.rs) ----
    adj_rpc, \* the last adjacencies request served and its answer; None before
    \* ---- N2rSocket and its send batcher (socket/n2r_socket.rs) ----
    send_outgoing, \* the channel from send_to to send_batcher_loop: (id, length, endpoint)
    batches, \* send_batcher_loop batches: endpoint -> the messages taken for it, in order
    batch_todo, \* the endpoints the for loop of this round has yet to visit
    sent_batches, \* the send_message calls made: (endpoint, sub-batch), in order
    accepted, \* number of messages send_to has accepted
    \* ---- DaemonContext::send_message (daemon.rs) ----
    sm_call, \* the last send_message call: its arguments, what it returned, whether it injected; None before
    \* ---- the endpoints of the N2rSockets (socket/n2r_socket.rs) ----
    socket_recv_queues, \* ctx.socket_recv_queues: endpoint -> the socket whose queue it holds
    bound_dock, \* live socket -> the endpoint of its BoundDock
    binds \* number of N2rSocket::bind calls so far

peelVars == <<pkts_seen, debts, debt_cap, task, neigh_table, client_table,
              delay_queue, incoming, handed, effects, in_accepted, out_sent, counted>>
\* the peel engine's variables but the table of relay neighbours
peelOnlyVars == <<pkts_seen, debts, debt_cap, task, client_table, delay_queue, incoming,
                  handed, effects, in_accepted, out_sent, counted>>
gossipVars == <<global_identity, gossip_pc, sign_rpc, adj_paths>>
routeVars == <<route_result>>
surbVars == <<degarblers, surbs_out, reply_pkts, delivered>>
storeVars == <<misc, chats, running, my_id, boots, written, last_snapshot, loaded>>
netVars == <<now, timers, relay_emitted, panicked>>
\* the variables of the parts modelled further down
dialVars == <<dial_pc, remote_up, links_made>>
pairVars == <<graph_of, tick_pc, sign_reply, ticks_done, unix_time>>
backVars == <<sb_calls, injected>>
debtVars == <<debt_table, debt_written>>
goiVars == <<goi_call>>
serveVars == <<daemon_up, route_task, rpc_reply>>
fwdVars == <<fwd_sent, send_raw_chan, wire, seen_at, timers_at, handled_at, dropped_at,
             recv_at, replays>>
innerVars == <<incoming_send, anon_destinations, inner_calls>>
signVars == <<sign_call>>
linkVars == <<link_tasks>>
authVars == <<link_remote>>
adjVars == <<adj_rpc>>
batchVars == <<send_outgoing, batches, batch_todo, sent_batches, accepted>>
sendVars == <<sm_call>>
sockVars == <<socket_recv_queues, bound_dock, binds>>
extVars == <<netVars, dialVars, pairVars, backVars, debtVars, goiVars, serveVars, fwdVars,
             innerVars, signVars, linkVars, authVars, adjVars, batchVars, sendVars, sockVars>>
\* extVars but one group
extNoNet  == <<dialVars, pairVars, backVars, debtVars, goiVars, serveVars, fwdVars, innerVars, signVars, linkVars, authVars, adjVars, batchVars, sendVars, sockVars>>
extNoDial == <<now, timers, relay_emitted, pairVars, backVars, debtVars, goiVars, serveVars, fwdVars, innerVars, signVars, linkVars, authVars, adjVars, batchVars, sendVars, sockVars>>
extNoPair == <<netVars, dialVars, backVars, debtVars, goiVars, serveVars, fwdVars, innerVars, signVars, linkVars, authVars, adjVars, batchVars, sendVars, sockVars>>
extNoBack == <<netVars, dialVars, pairVars, debtVars, goiVars, serveVars, fwdVars, innerVars, signVars, linkVars, authVars, adjVars, batchVars, sendVars, sockVars>>
extNoDebt == <<netVars, dialVars, pairVars, backVars, goiVars, serveVars, fwdVars, innerVars, signVars, linkVars, authVars, adjVars, batchVars, sendVars, sockVars>>
extNoGoi  == <<netVars, dialVars, pairVars, backVars, debtVars, serveVars, fwdVars, innerVars, signVars, linkVars, authVars, adjVars, batchVars, sendVars, sockVars>>
extNoFwd  == <<netVars, dialVars, pairVars, backVars, debtVars, goiVars, serveVars, innerVars, signVars, linkVars, authVars, adjVars, batchVars, sendVars, sockVars>>
\* extVars but panicked
extNoPanicked == <<now, timers, relay_emitted, dialVars, pairVars, backVars, debtVars,
                   goiVars, serveVars, fwdVars, innerVars, signVars, linkVars, authVars, adjVars, batchVars, sendVars, sockVars>>
extNoSign  == <<netVars, dialVars, pairVars, backVars, debtVars, goiVars, serveVars, fwdVars,
               innerVars, linkVars, authVars, adjVars, batchVars, sendVars, sockVars>>
extNoInner == <<netVars, dialVars, pairVars, backVars, debtVars, goiVars, serveVars, fwdVars, signVars, linkVars, authVars, adjVars, batchVars, sendVars, sockVars>>
\* what the peel engine never touches
nonPeelVars == <<gossipVars, routeVars, surbVars, storeVars, extVars>>
\* what the gossip code never touches
nonGossipVars == <<peelOnlyVars, routeVars, surbVars, storeVars, extVars>>


(***************************************************************************)
(* Signatures and the relay graph (crate earendil_topology).               *)
(***************************************************************************)
\* IdentitySecret::sign: a signature names its signer and what was signed
Sign(fp, msg) == <<"sig", fp, msg>>
EmptySig == <<"sig", 0, <<>>>>

\* AdjacencyDescriptor::to_sign: the descriptor without its signature fields
to_sign(d) == <<d.left, d.right, d.unix_timestamp>>

\* IdentityDescriptor::new(identity, onion_sk): the identity key signs the onion key
OnionPk(fp) == <<"onion_pk", fp>>
IdentityDescriptor(fp) ==
    [identity_pk |-> fp, onion_pk |-> OnionPk(fp), sig |-> Sign(fp, OnionPk(fp))]

\* an adjacency of left and right signed by both at time ts
MkAdj(left, right, ts) ==
    [left |-> left, right |-> right,
     left_sig |-> Sign(left, <<left, right, ts>>),
     right_sig |-> Sign(right, <<left, right, ts>>),
     unix_timestamp |-> ts]

\* RelayGraph::new()
EmptyGraph == [ids |-> {}, adjs |-> {}]

\* RelayGraph::all_nodes
all_nodes(g) == {i.identity_pk : i \in g.ids}

\* RelayGraph::identity(fp)
identity(g, fp) ==
    IF fp \in all_nodes(g) THEN CHOOSE i \in g.ids : i.identity_pk = fp ELSE None

\* RelayGraph::adjacencies(fp): the adjacencies that touch fp
adjacencies(g, fp) == {a \in g.adjs : a.left = fp \/ a.right = fp}

Adjacent(g, a, b) == \E d \in g.adjs : {d.left, d.right} = {a, b}

\* the nodes within k adjacencies of a
RECURSIVE Ball(_, _, _)
Ball(g, a, k) ==
    IF k = 0 THEN {a}
    ELSE LET B == Ball(g, a, k - 1)
         IN  B \cup {n \in all_nodes(g) : \E m \in B : Adjacent(g, m, n)}

\* the length (number of fingerprints) of RelayGraph::find_shortest_path(a, b),
\* 0 when it returns None: there is no path, or an end is unknown to the graph
route_len(g, a, b) ==
    IF a \notin all_nodes(g) \/ b \notin all_nodes(g) THEN 0
    ELSE LET ks == {k \in 0..(Cardinality(Fingerprints) - 1) : b \in Ball(g, a, k)}
         IN  IF ks = {} THEN 0
             ELSE 1 + (CHOOSE k \in ks : \A j \in ks : k <= j)

\* the fingerprints that can be route[1] of a shortest path from a to b
second_hops(g, a, b) ==
    LET len == route_len(g, a, b)
    IN  IF len < 2 THEN {}
        ELSE {n \in all_nodes(g) : Adjacent(g, a, n) /\ route_len(g, n, b) = len - 1}

(***************************************************************************)
(* The peel engine of daemon/peel_forward.rs.  One invocation of            *)
(* peel_forward is a task; its accesses to the shared tables are separate   *)
(* steps, since the executor (smolscale) runs tasks on several threads.     *)
(***************************************************************************)
\* the peel_forward invocations that may be in progress at once
Tasks == {1, 2}
Idle == [pc |-> "idle", last_hop |-> None, next_peeler |-> 0, pkt |-> 0, eff |-> FALSE]

\* capacity of the queue between the engine and a link (bounded(1))
ChanCap == 1

\* Debts::relay_is_within_debt_limit / client_is_within_debt_limit:
\* a neighbour is over the limit when it owes more than the cap
is_within_debt_limit(n) == debts[n] <= debt_cap

\* Debts::incr_relay_incoming / incr_client_incoming
incr_incoming(n) == [debts EXCEPT ![n] = @ + 1]

\* relay_one_hop_closer(dest_fp): route.get(1) of the shortest path from here
relay_one_hop_closer(dest_fp) == second_hops(relay_graph, MyFp, dest_fp)

Finish(t) == task' = [task EXCEPT ![t] = Idle]

\* the occurrence handled by task t has (another) side effect
Acts(t) ==
    effects' = IF task[t].eff THEN effects
               ELSE [effects EXCEPT ![task[t].pkt] = @ + 1]

\* peel_forward is called; pkts_seen.contains(&packet_hash)
pf_contains(t, last_hop, next_peeler, pkt) ==
    /\ task[t].pc = "idle"
    /\ handed' = handed + 1
    /\ pkt \in DOMAIN effects
    /\ IF Hash(pkt) \in pkts_seen
       THEN task' = task    \* bail: received replayed pkt
       ELSE task' = [task EXCEPT ![t] = [pc |-> "insert", last_hop |-> last_hop,
                                         next_peeler |-> next_peeler, pkt |-> pkt,
                                         eff |-> FALSE]]
    /\ UNCHANGED <<pkts_seen, debts, debt_cap, neigh_table, client_table, delay_queue,
                   incoming, effects, in_accepted, out_sent, relay_graph, counted, nonPeelVars>>

\* the replay check without the insertion
pf_insert_nothing(t) ==
    /\ task[t].pc = "insert"
    /\ task' = [task EXCEPT ![t].pc = "debt"]
    /\ UNCHANGED <<pkts_seen, debts, debt_cap, neigh_table, client_table, delay_queue, incoming,
                   handed, effects, in_accepted, out_sent, relay_graph, counted, nonPeelVars>>

\* pkts_seen.insert(packet_hash)
pf_insert(t) ==
    /\ task[t].pc = "insert"
    /\ pkts_seen' = pkts_seen \cup {Hash(task[t].pkt)}
    /\ task' = [task EXCEPT ![t].pc = "debt"]
    /\ UNCHANGED <<debts, debt_cap, neigh_table, client_table, delay_queue, incoming,
                   handed, effects, in_accepted, out_sent, relay_graph, counted, nonPeelVars>>

\* pf_debt with the increment done before the check
pf_debt_incr_first(t) ==
    LET n == task[t].last_hop IN
    /\ task[t].pc = "debt"
    /\ debts' = IF n # Relay(MyFp) THEN incr_incoming(n) ELSE debts
    /\ counted' = IF n # Relay(MyFp) THEN counted \cup {task[t].pkt} ELSE counted
    /\ IF debts'[n] > debt_cap
       THEN /\ Finish(t)
            /\ UNCHANGED <<effects, in_accepted>>
       ELSE /\ in_accepted' = IF n # Relay(MyFp) THEN [in_accepted EXCEPT ![n] = @ + 1]
                              ELSE in_accepted
            /\ Acts(t)
            /\ task' = [task EXCEPT ![t].pc = "dispatch", ![t].eff = TRUE]
    /\ UNCHANGED <<pkts_seen, debt_cap, neigh_table, client_table, delay_queue, incoming,
                   handed, out_sent, relay_graph, nonPeelVars>>

\* pf_debt refusing every sender as long as some neighbour is over the limit
pf_debt_any_over(t) ==
    LET n == task[t].last_hop IN
    /\ task[t].pc = "debt"
    /\ IF \E m \in NodeIds : ~is_within_debt_limit(m)
       THEN /\ Finish(t)
            /\ UNCHANGED <<debts, effects, in_accepted, counted>>
       ELSE IF n # Relay(MyFp)
       THEN /\ debts' = incr_incoming(n)
            /\ counted' = counted \cup {task[t].pkt}
            /\ in_accepted' = [in_accepted EXCEPT ![n] = @ + 1]
            /\ Acts(t)
            /\ task' = [task EXCEPT ![t].pc = "dispatch", ![t].eff = TRUE]
       ELSE /\ task' = [task EXCEPT ![t].pc = "dispatch"]
            /\ UNCHANGED <<debts, effects, in_accepted, counted>>
    /\ UNCHANGED <<pkts_seen, debt_cap, neigh_table, client_table, delay_queue, incoming,
                   handed, out_sent, relay_graph, nonPeelVars>>

\* match last_hop { ... }: the debt check and the inbound increment
pf_debt(t) ==
    LET n == task[t].last_hop IN
    /\ task[t].pc = "debt"
    /\ IF ~is_within_debt_limit(n)
       THEN /\ Finish(t)       \* bail: owes us too much
            /\ UNCHANGED <<debts, effects, in_accepted, counted>>
       ELSE IF n # Relay(MyFp)
       THEN /\ debts' = incr_incoming(n)
            /\ counted' = counted \cup {task[t].pkt}
            /\ in_accepted' = [in_accepted EXCEPT ![n] = @ + 1]
            /\ Acts(t)
            /\ task' = [task EXCEPT ![t].pc = "dispatch", ![t].eff = TRUE]
       ELSE /\ task' = [task EXCEPT ![t].pc = "dispatch"]
            /\ UNCHANGED <<debts, effects, in_accepted, counted>>
    /\ UNCHANGED <<pkts_seen, debt_cap, neigh_table, client_table, delay_queue, incoming,
                   handed, out_sent, relay_graph, nonPeelVars>>

\* if next_peeler == my_fp { peel ... }
pf_peel(t) ==
    LET peeled == peel(task[t].pkt) IN
    /\ task[t].pc = "dispatch"
    /\ task[t].next_peeler = MyFp
    /\ IF peeled.kind = "Err" THEN UNCHANGED effects ELSE Acts(t)
    /\ CASE peeled.kind = "Relay" ->
              /\ delay_queue' = delay_queue \cup
                    {[pkt |-> peeled.pkt, next_peeler |-> peeled.next_peeler,
                      delay_ms |-> peeled.delay_ms]}
              /\ Finish(t)
              /\ UNCHANGED incoming
         [] peeled.kind = "Received" ->
              /\ incoming' = incoming \cup {<<peeled.from, peeled.pkt>>}
              /\ Finish(t)
              /\ UNCHANGED delay_queue
         [] peeled.kind = "GarbledReply" ->
              /\ IF peeled.client_id \in DOMAIN client_table
                 THEN task' = [task EXCEPT ![t].pc = "client_send", ![t].eff = TRUE]
                 ELSE Finish(t)     \* there is no such client
              /\ UNCHANGED <<delay_queue, incoming>>
         [] OTHER ->                \* pkt.peel(..)? failed
              /\ Finish(t)
              /\ UNCHANGED <<delay_queue, incoming>>
    /\ UNCHANGED <<pkts_seen, debts, debt_cap, neigh_table, client_table, handed,
                   in_accepted, out_sent, relay_graph, counted, nonPeelVars>>

\* client_link.send((pkt, id)).await: waits for room in the client's queue
pf_client_send(t) ==
    LET peeled == peel(task[t].pkt)
        c == peeled.client_id IN
    /\ task[t].pc = "client_send"
    /\ c \in DOMAIN client_table
    /\ Len(client_table[c]) < ChanCap
    /\ client_table' = [client_table EXCEPT ![c] = Append(@, <<peeled.pkt, peeled.id>>)]
    /\ out_sent' = [out_sent EXCEPT ![Client(c)] = @ + 1]
    /\ Finish(t)
    /\ UNCHANGED <<pkts_seen, debts, debt_cap, neigh_table, delay_queue, incoming, handed,
                   effects, in_accepted, relay_graph, counted, nonPeelVars>>

\* pf_forward handing the packet to any connected relay when no next hop resolves
pf_forward_flood(t) ==
    /\ task[t].pc = "dispatch"
    /\ task[t].next_peeler # MyFp
    /\ \E next_hop \in DOMAIN neigh_table :
          /\ Len(neigh_table[next_hop]) < ChanCap
          /\ neigh_table' = [neigh_table EXCEPT ![next_hop] =
                                Append(@, <<task[t].pkt, task[t].next_peeler>>)]
          /\ out_sent' = [out_sent EXCEPT ![Relay(next_hop)] = @ + 1]
          /\ Acts(t)
    /\ Finish(t)
    /\ UNCHANGED <<pkts_seen, debts, debt_cap, client_table, delay_queue, incoming, handed,
                   in_accepted, relay_graph, counted, nonPeelVars>>

\* else { relay_one_hop_closer ... conn.try_send((pkt, next_peeler)) }
pf_forward(t) ==
    /\ task[t].pc = "dispatch"
    /\ task[t].next_peeler # MyFp
    /\ \/ /\ relay_one_hop_closer(task[t].next_peeler) = {}   \* no route found
          /\ UNCHANGED <<neigh_table, out_sent, effects>>
       \/ \E next_hop \in relay_one_hop_closer(task[t].next_peeler) :
            IF next_hop \notin DOMAIN neigh_table
            THEN UNCHANGED <<neigh_table, out_sent, effects>>  \* could not find this next hop
            ELSE IF Len(neigh_table[next_hop]) < ChanCap
            THEN /\ neigh_table' = [neigh_table EXCEPT ![next_hop] =
                                      Append(@, <<task[t].pkt, task[t].next_peeler>>)]
                 /\ out_sent' = [out_sent EXCEPT ![Relay(next_hop)] = @ + 1]
                 /\ Acts(t)
            ELSE UNCHANGED <<neigh_table, out_sent, effects>>  \* try_send: queue full
    /\ Finish(t)
    /\ UNCHANGED <<pkts_seen, debts, debt_cap, client_table, delay_queue, incoming, handed,
                   in_accepted, relay_graph, counted, nonPeelVars>>

\* the link to relay fp takes a packet off its queue and writes it to the pipe
link_send_relay(fp) ==
    /\ fp \in DOMAIN neigh_table
    /\ neigh_table[fp] # <<>>
    /\ neigh_table' = [neigh_table EXCEPT ![fp] = Tail(@)]
    /\ UNCHANGED <<pkts_seen, debts, debt_cap, task, client_table, delay_queue, incoming,
                   handed, effects, in_accepted, out_sent, relay_graph, counted, nonPeelVars>>

\* the link to client c takes a reply off its queue and writes it to the pipe
link_send_client(c) ==
    /\ c \in DOMAIN client_table
    /\ client_table[c] # <<>>
    /\ client_table' = [client_table EXCEPT ![c] = Tail(@)]
    /\ UNCHANGED <<pkts_seen, debts, debt_cap, task, neigh_table, delay_queue, incoming,
                   handed, effects, in_accepted, out_sent, relay_graph, counted, nonPeelVars>>


(***************************************************************************)
(* SpecPeel: the engine of daemon/peel_forward.rs on a relay with the      *)
(* graph 1 - 2 - 3 - 4, a link to relay 3 and a link to client 7, fed by    *)
(* its links with packets PeelPkts in any order and any number of times.   *)
(***************************************************************************)
\* the packets of SpecPeel: one of each kind of peel result
PeelPkts == 1..4

LineGraph ==
    [ids |-> {IdentityDescriptor(fp) : fp \in Fingerprints},
     adjs |-> {MkAdj(1, 2, 1), MkAdj(2, 3, 1), MkAdj(3, 4, 1)}]

\* the peel engine at rest
PeelAtRest ==
    /\ pkts_seen = {}
    /\ debts = [n \in NodeIds |-> 0]
    /\ debt_cap = 0
    /\ task = [t \in Tasks |-> Idle]
    /\ client_table = [c \in ClientIds |-> <<>>]
    /\ delay_queue = {}
    /\ incoming = {}
    /\ handed = 0
    /\ effects = <<>>
    /\ in_accepted = [n \in NodeIds |-> 0]
    /\ out_sent = [n \in NodeIds |-> 0]
    /\ counted = {}

\* a relay linked to relay 3, its graph the line 1 - 2 - 3 - 4
LinksAtRest ==
    /\ neigh_table = [fp \in {3} |-> <<>>]
    /\ relay_graph = LineGraph

\* the gossip code at rest on a relay
GossipAtRest ==
    /\ global_identity = Some(MyFp)
    /\ gossip_pc = <<>>
    /\ sign_rpc = [fp \in Fingerprints |-> "none"]
    /\ adj_paths = {}

RouteAtRest == route_result = None

SurbAtRest ==
    /\ degarblers = {}
    /\ surbs_out = {}
    /\ reply_pkts = {}
    /\ delivered = <<>>

NetAtRest ==
    /\ now = 0
    /\ timers = {}
    /\ relay_emitted = {}
    /\ panicked = FALSE

\* the configured out-routes
OutRoutes == 1..2

\* every dial_out_route task about to dial for the first time
DialAtRest ==
    /\ dial_pc = [r \in OutRoutes |-> "dial"]
    /\ remote_up = [r \in OutRoutes |-> FALSE]
    /\ links_made = [r \in OutRoutes |-> 0]

\* two relays A < B with a link between them
RelayA == 1
RelayB == 2
PairRelays == {RelayA, RelayB}
Other(n) == IF n = RelayA THEN RelayB ELSE RelayA

\* the link is up and manage_mux has started on both sides: each graph holds
\* the relay's own descriptor and the one the other side showed in the handshake
PairAtRest ==
    /\ graph_of = [n \in PairRelays |->
                     [EmptyGraph EXCEPT !.ids = {IdentityDescriptor(m) : m \in PairRelays}]]
    /\ tick_pc = [n \in PairRelays |-> "fetch_identity"]
    /\ sign_reply = [n \in PairRelays |-> None]
    /\ ticks_done = [n \in PairRelays |-> 0]
    /\ unix_time = 1

\* no call of send_backwards yet
BackAtRest ==
    /\ sb_calls = <<>>
    /\ injected = <<>>

\* the neighbours debt entries are recorded for: two relays, and a client that
\* shares its number with one of them
DebtNeighbors == {Relay(1), Relay(3), Client(1)}

\* an empty table debts
DebtAtRest ==
    /\ debt_table = <<>>
    /\ debt_written = [n \in DebtNeighbors |-> <<>>]

\* number of tasks or processes that call get_or_insert_misc on one store
MaxCallers == 3
Callers == 1..MaxCallers

\* no call of get_or_insert_misc has started
GoiAtRest == goi_call = [c \in Callers |-> [pc |-> "idle", value |-> None, ret |-> None]]

\* the route tasks main_daemon spawned: one in-route and one out-route
RouteTasks == 1..2

\* the daemon has started: its route tasks run, no stubbed RPC was called
ServeAtRest ==
    /\ daemon_up = TRUE
    /\ route_task = [t \in RouteTasks |-> "running"]
    /\ rpc_reply = None

\* the relays R1, R2, R3 of the forward, and the relay the client is linked to
FwdRelays == 1..3
FwdEntry == 1

\* nothing was sent and nothing is on its way
FwdAtRest ==
    /\ fwd_sent = None
    /\ send_raw_chan = <<>>
    /\ wire = [n \in FwdRelays |-> <<>>]
    /\ seen_at = [n \in FwdRelays |-> {}]
    /\ timers_at = [n \in FwdRelays |-> {}]
    /\ handled_at = [n \in FwdRelays |-> <<>>]
    /\ dropped_at = [n \in FwdRelays |-> 0]
    /\ recv_at = [n \in FwdRelays |-> <<>>]
    /\ replays = 0

InnerSources == {4, 5}

\* no inner packet was processed
InnerAtRest ==
    /\ incoming_send = <<>>
    /\ anon_destinations = [f \in InnerSources |-> <<>>]
    /\ inner_calls = <<>>

\* no socket has sent anything
BatchAtRest ==
    /\ send_outgoing = <<>>
    /\ batches = [e \in {} |-> <<>>]
    /\ batch_todo = {}
    /\ sent_batches = <<>>
    /\ accepted = 0

\* the parts modelled further down, at rest
ExtAtRest ==
    /\ NetAtRest
    /\ DialAtRest
    /\ PairAtRest
    /\ BackAtRest
    /\ DebtAtRest
    /\ GoiAtRest
    /\ ServeAtRest
    /\ FwdAtRest
    /\ InnerAtRest
    /\ sign_call = None
    /\ link_tasks = [r \in OutRoutes |-> {}]
    /\ link_remote = [r \in OutRoutes |-> None]
    /\ adj_rpc = None
    /\ BatchAtRest
    /\ sm_call = None
    /\ socket_recv_queues = <<>>
    /\ bound_dock = <<>>
    /\ binds = 0

\* an empty store, no LinkNode started
StoreAtRest ==
    /\ misc = <<>>
    /\ chats = <<>>
    /\ running = FALSE
    /\ my_id = None
    /\ boots = 0
    /\ written = [n \in ChatNeighbors |-> <<>>]
    /\ last_snapshot = None
    /\ loaded = None

PeelInit(cap, pkts) ==
    /\ pkts_seen = {}
    /\ debts = [n \in NodeIds |-> 0]
    /\ debt_cap = cap
    /\ task = [t \in Tasks |-> Idle]
    /\ neigh_table = [fp \in {3} |-> <<>>]
    /\ client_table = [c \in ClientIds |-> <<>>]
    /\ delay_queue = {}
    /\ incoming = {}
    /\ relay_graph = LineGraph
    /\ handed = 0
    /\ effects = [p \in pkts |-> 0]
    /\ in_accepted = [n \in NodeIds |-> 0]
    /\ out_sent = [n \in NodeIds |-> 0]
    /\ counted = {}
    /\ GossipAtRest
    /\ RouteAtRest
    /\ SurbAtRest
    /\ StoreAtRest
    /\ ExtAtRest

\* who hands packets to the engine in SpecPeel: relay 3, this node itself, client 7
PeelLastHops == {Relay(3), Relay(MyFp), Client(7)}
\* the next peelers asked for: this node, a relay behind 3, a relay not linked
PeelNextPeelers == {MyFp, 4, 1}

InitPeel == PeelInit(PeelCap, PeelPkts)

NextPeel ==
    \/ \E t \in Tasks, lh \in PeelLastHops, np \in PeelNextPeelers, p \in PeelPkts :
         handed < MaxRecv /\ pf_contains(t, lh, np, p)
    \/ \E t \in Tasks : pf_insert(t)
    \/ \E t \in Tasks : pf_debt(t)
    \/ \E t \in Tasks : pf_peel(t)
    \/ \E t \in Tasks : pf_client_send(t)
    \/ \E t \in Tasks : pf_forward(t)
    \/ \E fp \in Fingerprints : link_send_relay(fp)
    \/ \E c \in ClientIds : link_send_client(c)

vars == <<pkts_seen, debts, debt_cap, task, neigh_table, client_table, delay_queue,
          incoming, relay_graph, handed, effects, in_accepted, out_sent, counted, gossipVars,
          routeVars, surbVars, storeVars, extVars>>

SpecPeel == InitPeel /\ [][NextPeel]_vars

\* C1: a packet handed to the engine more than once has a side effect
\* (debt change, peel, delay scheduling, dispatch, delivery) at most once
C1_OnlyFirstOccurrenceActs == \A p \in DOMAIN effects : effects[p] <= 1

\* C20: the hash goes into the replay set before the inbound debt is
\* incremented, and the debt is incremented before anything is dispatched: a
\* packet counted against a neighbour's debt has its hash in the replay set,
\* and so has a packet past the debt step, which is counted unless it came
\* from this relay itself
C20_CountedPacketsAreInReplaySet ==
    /\ \A p \in counted : Hash(p) \in pkts_seen
    /\ \A t \in Tasks :
          task[t].pc \in {"debt", "dispatch", "client_send"} =>
              /\ Hash(task[t].pkt) \in pkts_seen
              /\ (task[t].pc # "debt" /\ task[t].last_hop # Relay(MyFp))
                    => task[t].pkt \in counted

\* a counted packet is about to be dispatched while another packet, counted
\* before, is through
C20_Witness ==
    /\ Cardinality(counted) = 2
    /\ \E t \in Tasks : task[t].pc = "dispatch" /\ task[t].pkt \in counted

\* C22: a relay that handles a packet whose next_peeler is another relay does
\* not peel it (nothing is scheduled, delivered or sent to a client); what it
\* puts on a link is that packet with that next_peeler, on the link to the
\* next hop towards next_peeler; when that next hop is no connected
\* neighbour, nothing is sent
C22_TransitIsForwardedUnpeeled ==
    [][\A t \in Tasks :
          (task[t].pc = "dispatch" /\ task[t].next_peeler # MyFp /\ task'[t] # task[t]) =>
             /\ task'[t] = Idle
             /\ UNCHANGED <<delay_queue, incoming, client_table>>
             /\ \/ UNCHANGED <<neigh_table, out_sent>>
                \/ \E next_hop \in relay_one_hop_closer(task[t].next_peeler) :
                      /\ next_hop \in DOMAIN neigh_table
                      /\ neigh_table' = [neigh_table EXCEPT ![next_hop] =
                                            Append(@, <<task[t].pkt, task[t].next_peeler>>)]]_vars

\* packet 1 was put on the link to relay 3 as it came, addressed to peeler 4,
\* and a packet addressed to relay 1, to which no link leads, was dropped
C22_Witness ==
    /\ neigh_table[3] = <<<<1, 4>>>>
    /\ handed = 2
    /\ out_sent[Relay(3)] = 1
    /\ \A t \in Tasks : task[t].pc = "idle"
    /\ Cardinality(pkts_seen) = 2
    /\ delay_queue = {} /\ incoming = {}
    /\ \A c \in DOMAIN client_table : client_table[c] = <<>>

\* C32: no invocation of the engine waits on a full channel: wherever one
\* stands with a packet for a neighbour, that neighbour's channel has room
C32_NeverWaitsOnAFullChannel ==
    \A t \in Tasks :
        task[t].pc = "client_send" =>
            Len(client_table[peel(task[t].pkt).client_id]) < ChanCap

\* C2: debt(N) is the packets accepted inbound from N minus those sent outbound to N
C2_DebtIsInMinusOut == \A n \in NodeIds : debts[n] = in_accepted[n] - out_sent[n]


(***************************************************************************)
(* SpecCap: the debt-cap scenario.  The cap is ScenarioCap, neighbour N is  *)
(* relay 3 and starts at debt 0; N sends distinct packets, one after the    *)
(* other, each addressed to this node as its peeler.                        *)
(***************************************************************************)
ScenarioCap == 100
CapPkts == 1..(ScenarioCap + 3)
N == Relay(3)

InitCap == PeelInit(ScenarioCap, CapPkts)

NextCap ==
    \/ handed + 1 \in CapPkts /\ pf_contains(1, N, MyFp, handed + 1)
    \/ pf_insert(1)
    \/ pf_debt(1)
    \/ pf_peel(1)
    \/ pf_client_send(1)
    \/ \E c \in ClientIds : link_send_client(c)

SpecCap == InitCap /\ [][NextCap]_vars

Min(a, b) == IF a <= b THEN a ELSE b

MaxOverRecv == 3
OverLastHops == {Relay(3), Client(7)}

NextOver ==
    \/ \E lh \in OverLastHops, np \in PeelNextPeelers, p \in PeelPkts :
         handed < MaxOverRecv /\ pf_contains(1, lh, np, p)
    \/ pf_insert(1)
    \/ pf_debt(1)
    \/ pf_peel(1)
    \/ pf_client_send(1)
    \/ pf_forward(1)
    \/ \E fp \in Fingerprints : link_send_relay(fp)
    \/ \E c \in ClientIds : link_send_client(c)

SpecOver == InitPeel /\ [][NextOver]_vars

\* the step of task t at the debt check
AtDebtCheck(t) == task[t].pc = "debt" /\ task'[t] # task[t]

\* C21: the step that finds the sender of a packet over the debt cap ends the
\* handling of the packet there, before the peel and the dispatch, and changes
\* nothing else: no debt, no count of accepted packets, no queue, no delivery;
\* and a packet whose sender is within the cap is accepted, whoever else is
\* over it
C21_OverCapDropTouchesNothingElse ==
    [][\A t \in Tasks :
          AtDebtCheck(t) =>
             IF is_within_debt_limit(task[t].last_hop)
             THEN task'[t].pc = "dispatch"
             ELSE /\ task'[t] = Idle
                  /\ UNCHANGED <<debts, counted, in_accepted, effects, delay_queue, incoming,
                                 neigh_table, client_table, out_sent>>]_vars

\* relay 3 has sent two packets, of which the second was dropped since relay 3
\* owed more than the cap; the packet client 7 sent after them is accepted
C21_Witness ==
    /\ handed = 3
    /\ Cardinality(pkts_seen) = 3
    /\ in_accepted[Relay(3)] = debt_cap + 1
    /\ debts[Relay(3)] > debt_cap
    /\ task[1].pc = "dispatch"
    /\ task[1].last_hop = Client(7)
    /\ in_accepted[Client(7)] = 1

(***************************************************************************)
(* Topology gossip (daemon/inout_route.rs, gossip.rs, link_protocol_impl.rs).*)
(* The remote end of a link is not trusted: what it answers to an RPC, and   *)
(* what it sends to the RPC server, is any descriptor it can build.          *)
(***************************************************************************)
\* the timestamps descriptors carry in SpecGossip
MaxTs == 2
Timestamps == 1..MaxTs
\* the relays of SpecGossip: this node (2), a smaller and a larger neighbour
GossipFps == 1..3
\* the relays that link to this node
GossipRemotes == {1, 3}

\* IdentityPublic::verify
verify(fp, msg, sig) == sig = Sign(fp, msg)

\* the signatures a remote may put in a field that fp should have signed
SigsFor(fp, msg) == {Sign(fp, msg), EmptySig}

\* the adjacency descriptors a remote may send: of two relays in either order,
\* each signature valid or not
RemoteAdjs ==
    UNION {{[left |-> p[1], right |-> p[2], left_sig |-> ls, right_sig |-> rs,
             unix_timestamp |-> ts] :
                ls \in SigsFor(p[1], <<p[1], p[2], ts>>),
                rs \in SigsFor(p[2], <<p[1], p[2], ts>>)} :
           p \in {q \in GossipFps \X GossipFps : q[1] # q[2]}, ts \in Timestamps}

\* the identity descriptors a remote may send for fp
RemoteIds(fp) ==
    {IdentityDescriptor(fp), [IdentityDescriptor(fp) EXCEPT !.sig = EmptySig]}

\* RelayGraph::insert_identity: rejects a descriptor whose signature is invalid,
\* replaces the descriptor the graph holds for the same identity
insert_identity(g, id) ==
    IF verify(id.identity_pk, id.onion_pk, id.sig)
    THEN [ok |-> TRUE,
          g  |-> [g EXCEPT !.ids = {i \in @ : i.identity_pk # id.identity_pk} \cup {id}]]
    ELSE [ok |-> FALSE, g |-> g]

\* insert_adjacency that does not verify the right signature
insert_adjacency_left_sig_only(g, adj) ==
    IF /\ adj.left < adj.right
       /\ adj.left \in all_nodes(g)
       /\ adj.right \in all_nodes(g)
       /\ verify(adj.left, to_sign(adj), adj.left_sig)
    THEN [ok |-> TRUE,
          g  |-> [g EXCEPT !.adjs = {a \in @ : <<a.left, a.right>> # <<adj.left, adj.right>>}
                                        \cup {adj}]]
    ELSE [ok |-> FALSE, g |-> g]

\* insert_adjacency that asks only for the two signatures
insert_adjacency_unknown_ends(g, adj) ==
    IF /\ verify(adj.left, to_sign(adj), adj.left_sig)
       /\ verify(adj.right, to_sign(adj), adj.right_sig)
    THEN [ok |-> TRUE,
          g  |-> [g EXCEPT !.adjs = {a \in @ : <<a.left, a.right>> # <<adj.left, adj.right>>}
                                        \cup {adj}]]
    ELSE [ok |-> FALSE, g |-> g]

\* RelayGraph::insert_adjacency: fails when left >= right, when an end's identity
\* is unknown, or when a signature does not verify; an adjacency of the same
\* (left, right) is superseded unless it is newer
insert_adjacency(g, adj) ==
    IF /\ adj.left < adj.right
       /\ adj.left \in all_nodes(g)
       /\ adj.right \in all_nodes(g)
       /\ verify(adj.left, to_sign(adj), adj.left_sig)
       /\ verify(adj.right, to_sign(adj), adj.right_sig)
    THEN [ok |-> TRUE,
          g  |-> IF \E a \in g.adjs : /\ <<a.left, a.right>> = <<adj.left, adj.right>>
                                      /\ a.unix_timestamp > adj.unix_timestamp
                 THEN g
                 ELSE [g EXCEPT !.adjs = {a \in @ : <<a.left, a.right>> # <<adj.left, adj.right>>}
                                             \cup {adj}]]
    ELSE [ok |-> FALSE, g |-> g]

\* network::is_relay_neigh: the relay has a subscription in RELAY_SPIDER
is_relay_neigh(fp) == fp \in DOMAIN neigh_table

Drop(f, x) == [y \in DOMAIN f \ {x} |-> f[y]]

\* manage_mux that subscribes the relay whatever insert_identity answers
manage_mux_subscribes_anyway(descr) ==
    LET fp == descr.identity_pk
        r  == insert_identity(relay_graph, descr)
    IN  /\ fp \notin DOMAIN neigh_table
        /\ relay_graph' = r.g
        /\ neigh_table' = neigh_table @@ (fp :> <<>>)
        /\ gossip_pc' = gossip_pc @@ (fp :> "fetch_identity")
        /\ UNCHANGED <<nonGossipVars, global_identity, sign_rpc, adj_paths>>

\* manage_mux, for a link whose remote shows the relay descriptor descr: the
\* descriptor is inserted, the relay subscribed, and the gossip loop started
manage_mux(descr) ==
    LET fp == descr.identity_pk
        r  == insert_identity(relay_graph, descr)
    IN  /\ fp \notin DOMAIN neigh_table
        /\ r.ok
        /\ relay_graph' = r.g
        /\ neigh_table' = neigh_table @@ (fp :> <<>>)
        /\ gossip_pc' = gossip_pc @@ (fp :> "fetch_identity")
        /\ UNCHANGED <<nonGossipVars, global_identity, sign_rpc, adj_paths>>

\* the link to relay fp dies: the tasks raced in manage_mux are dropped
manage_mux_died(fp) ==
    /\ fp \in DOMAIN neigh_table
    /\ neigh_table' = Drop(neigh_table, fp)
    /\ gossip_pc' = Drop(gossip_pc, fp)
    /\ UNCHANGED <<nonGossipVars, relay_graph, global_identity, sign_rpc, adj_paths>>

\* gossip_once, step 1: fetch_identity(remote_fp); an error ends the round
fetch_identity(remote_fp, their_id) ==
    /\ remote_fp \in DOMAIN gossip_pc
    /\ gossip_pc[remote_fp] = "fetch_identity"
    /\ IF their_id = None
       THEN UNCHANGED <<relay_graph, gossip_pc>>
       ELSE LET r == insert_identity(relay_graph, their_id[1])
            IN  /\ relay_graph' = r.g
                /\ gossip_pc' = IF r.ok THEN [gossip_pc EXCEPT ![remote_fp] = "sign_adjacency"]
                                ELSE gossip_pc
    /\ UNCHANGED <<nonGossipVars, neigh_table, global_identity, sign_rpc, adj_paths>>

\* what step 2 does with the remote's answer; complete = None when the RPC
\* fails or the remote refuses
sign_adjacency_answer(remote_fp, complete) ==
    IF complete = None
    THEN /\ gossip_pc' = [gossip_pc EXCEPT ![remote_fp] = "fetch_identity"]
         /\ UNCHANGED <<relay_graph, adj_paths>>
    ELSE LET r == insert_adjacency(relay_graph, complete[1])
         IN  /\ relay_graph' = r.g
             /\ adj_paths' = IF r.ok THEN adj_paths \cup {"gossip_sign"} ELSE adj_paths
             /\ gossip_pc' = [gossip_pc EXCEPT ![remote_fp] =
                                 IF r.ok THEN "gossip_graph" ELSE "fetch_identity"]

\* sign_adjacency of gossip.rs asking every relay neighbour but itself
sign_adjacency_any_side(remote_fp, complete) ==
    /\ remote_fp \in DOMAIN gossip_pc
    /\ gossip_pc[remote_fp] = "sign_adjacency"
    /\ IF global_identity # None /\ global_identity[1] # remote_fp
       THEN /\ sign_rpc' = [sign_rpc EXCEPT ![remote_fp] = "issued"]
            /\ sign_adjacency_answer(remote_fp, complete)
       ELSE /\ sign_rpc' = [sign_rpc EXCEPT ![remote_fp] = "skipped"]
            /\ gossip_pc' = [gossip_pc EXCEPT ![remote_fp] = "gossip_graph"]
            /\ UNCHANGED <<relay_graph, adj_paths>>
    /\ UNCHANGED <<nonGossipVars, neigh_table, global_identity>>

\* step 2 in a gossip loop that returns the error of gossip_once to the race
\* of manage_mux: a failed or refused sign_adjacency ends the link
gossip_sign_adjacency_fatal(remote_fp, complete) ==
    /\ remote_fp \in DOMAIN gossip_pc
    /\ gossip_pc[remote_fp] = "sign_adjacency"
    /\ IF global_identity # None /\ global_identity[1] < remote_fp
       THEN /\ sign_rpc' = [sign_rpc EXCEPT ![remote_fp] = "issued"]
            /\ IF complete = None
               THEN /\ gossip_pc' = Drop(gossip_pc, remote_fp)
                    /\ neigh_table' = Drop(neigh_table, remote_fp)
                    /\ UNCHANGED <<relay_graph, adj_paths>>
               ELSE /\ sign_adjacency_answer(remote_fp, complete)
                    /\ UNCHANGED neigh_table
       ELSE /\ sign_rpc' = [sign_rpc EXCEPT ![remote_fp] = "skipped"]
            /\ gossip_pc' = [gossip_pc EXCEPT ![remote_fp] = "gossip_graph"]
            /\ UNCHANGED <<relay_graph, adj_paths, neigh_table>>
    /\ UNCHANGED <<nonGossipVars, global_identity>>

\* gossip_once, step 2: sign_adjacency(remote_fp) of gossip.rs.  The RPC is
\* made only by a relay that is left of the remote; the answer is inserted.
gossip_sign_adjacency(remote_fp, complete) ==
    /\ remote_fp \in DOMAIN gossip_pc
    /\ gossip_pc[remote_fp] = "sign_adjacency"
    /\ IF global_identity # None /\ global_identity[1] < remote_fp
       THEN /\ sign_rpc' = [sign_rpc EXCEPT ![remote_fp] = "issued"]
            /\ sign_adjacency_answer(remote_fp, complete)
       ELSE /\ sign_rpc' = [sign_rpc EXCEPT ![remote_fp] = "skipped"]
            /\ gossip_pc' = [gossip_pc EXCEPT ![remote_fp] = "gossip_graph"]
            /\ UNCHANGED <<relay_graph, adj_paths>>
    /\ UNCHANGED <<nonGossipVars, neigh_table, global_identity>>

\* LinkProtocolImpl::sign_adjacency, the RPC server: on a node without a relay
\* identity it panics at .expect("only relays have global identities"); a
\* relay signs the right side of a descriptor of a connected left neighbour
\* and inserts it
serve_sign_adjacency(left_incomplete) ==
    LET my_fp  == global_identity[1]
        valid  == /\ left_incomplete.left < left_incomplete.right
                  /\ left_incomplete.right = my_fp
                  /\ is_relay_neigh(left_incomplete.left)
        signed == [left_incomplete EXCEPT !.right_sig = Sign(my_fp, to_sign(left_incomplete))]
        r      == insert_adjacency(relay_graph, signed)
    IN  /\ DOMAIN neigh_table # {}
        /\ IF global_identity = None
           THEN /\ panicked' = TRUE
                /\ UNCHANGED <<relay_graph, adj_paths>>
           ELSE /\ IF valid
                   THEN /\ relay_graph' = r.g
                        /\ adj_paths' = IF r.ok THEN adj_paths \cup {"serve"} ELSE adj_paths
                   ELSE UNCHANGED <<relay_graph, adj_paths>>
                /\ UNCHANGED panicked
        /\ UNCHANGED <<peelOnlyVars, routeVars, surbVars, storeVars, extNoPanicked,
                       neigh_table, global_identity, gossip_pc, sign_rpc>>

\* gossip_once, step 3: gossip_graph, for one adjacency of the remote's answer.
\* left_id / right_id are the identities fetched for its ends, None for an end
\* that is this node, is cached, or that the remote has no identity for;
\* more tells whether the answer holds further adjacencies.
gossip_graph(remote_fp, adjacency, left_id, right_id, more) ==
    LET l == IF left_id = None THEN [ok |-> TRUE, g |-> relay_graph]
             ELSE insert_identity(relay_graph, left_id[1])
        r == IF ~l.ok \/ right_id = None THEN l
             ELSE insert_identity(l.g, right_id[1])
        a == IF ~r.ok THEN r ELSE insert_adjacency(r.g, adjacency)
    IN  /\ remote_fp \in DOMAIN gossip_pc
        /\ gossip_pc[remote_fp] = "gossip_graph"
        /\ global_identity = Some(adjacency.left) => left_id = None
        /\ global_identity = Some(adjacency.right) => right_id = None
        /\ relay_graph' = a.g
        /\ adj_paths' = IF a.ok THEN adj_paths \cup {"gossip_graph"} ELSE adj_paths
        /\ gossip_pc' = [gossip_pc EXCEPT ![remote_fp] =
                            IF a.ok /\ more THEN "gossip_graph" ELSE "fetch_identity"]
        /\ UNCHANGED <<nonGossipVars, neigh_table, global_identity, sign_rpc>>

\* a node that has just started, as a relay or as a client, with no link up;
\* a relay's graph holds its own identity
InitGossip ==
    /\ PeelAtRest
    /\ global_identity \in {Some(MyFp), None}
    /\ relay_graph = IF global_identity = None THEN EmptyGraph
                     ELSE [EmptyGraph EXCEPT !.ids = {IdentityDescriptor(MyFp)}]
    /\ neigh_table = <<>>
    /\ gossip_pc = <<>>
    /\ sign_rpc = [fp \in Fingerprints |-> "none"]
    /\ adj_paths = {}
    /\ RouteAtRest
    /\ SurbAtRest
    /\ StoreAtRest
    /\ ExtAtRest

AnyRemoteId == UNION {RemoteIds(fp) : fp \in GossipFps}

NextGossip ==
    \/ \E fp \in GossipRemotes : \E descr \in RemoteIds(fp) : manage_mux(descr)
    \/ \E fp \in GossipRemotes : manage_mux_died(fp)
    \/ \E fp \in GossipRemotes, id \in Option(AnyRemoteId) : fetch_identity(fp, id)
    \/ \E fp \in GossipRemotes, complete \in Option(RemoteAdjs) :
         gossip_sign_adjacency(fp, complete)
    \/ \E d \in RemoteAdjs : serve_sign_adjacency(d)
    \/ \E fp \in GossipRemotes, adj \in RemoteAdjs, more \in BOOLEAN :
         \E l \in Option(RemoteIds(adj.left)), r \in Option(RemoteIds(adj.right)) :
            gossip_graph(fp, adj, l, r, more)

SpecGossip == InitGossip /\ [][NextGossip]_vars

\* C4: every adjacency the relay graph holds, whichever path inserted it, has
\* left < right and carries valid signatures of both ends
C4_AdjacenciesOrderedAndSigned ==
    \A a \in relay_graph.adjs :
        /\ a.left < a.right
        /\ verify(a.left, to_sign(a), a.left_sig)
        /\ verify(a.right, to_sign(a), a.right_sig)

\* the gossip initiator, the RPC server and gossip_graph have each inserted one
C4_Witness ==
    /\ adj_paths = {"gossip_sign", "serve", "gossip_graph"}
    /\ Cardinality(relay_graph.adjs) = 3

\* C5: a sign_adjacency RPC is issued only by a node that holds a relay identity
\* and only to a neighbour whose fingerprint is larger than its own
C5_OnlyTheLeftRelayIssues ==
    \A fp \in DOMAIN sign_rpc :
        sign_rpc[fp] = "issued" => (global_identity # None /\ global_identity[1] < fp)

\* a relay has gossiped with a smaller and a larger neighbour: it asked only the larger
C5_Witness ==
    /\ global_identity = Some(MyFp)
    /\ sign_rpc[1] = "skipped"
    /\ sign_rpc[3] = "issued"

\* the adjacencies the remotes of the ticks below answer with: of this relay
\* and relay 3 in either order, of relays 1 and 3, and of relay 3 with itself,
\* each signature valid or not
TickPairs == {<<MyFp, 3>>, <<3, MyFp>>, <<1, 3>>, <<3, 3>>}
TickAdjs ==
    UNION {{[left |-> p[1], right |-> p[2], left_sig |-> ls, right_sig |-> rs,
             unix_timestamp |-> 1] :
                ls \in SigsFor(p[1], <<p[1], p[2], 1>>),
                rs \in SigsFor(p[2], <<p[1], p[2], 1>>)} : p \in TickPairs}

\* a step of gossip_once on the link to fp that ends in an error: the remote
\* returned no identity or one the graph rejects, the sign_adjacency RPC
\* failed, was refused or its answer was rejected, or a gossiped identity or
\* adjacency was rejected
GossipOnceFails(fp) ==
    \/ \E id \in Option(AnyRemoteId) :
          /\ id # None => ~insert_identity(relay_graph, id[1]).ok
          /\ fetch_identity(fp, id)
    \/ /\ global_identity # None
       /\ global_identity[1] < fp
       /\ \E complete \in Option(TickAdjs) :
             /\ complete # None => ~insert_adjacency(relay_graph, complete[1]).ok
             /\ gossip_sign_adjacency(fp, complete)
    \/ /\ fp \in DOMAIN gossip_pc
       /\ gossip_pc[fp] = "gossip_graph"
       /\ adj_paths' = adj_paths
       /\ relay_graph.adjs = relay_graph'.adjs
       /\ \E adj \in TickAdjs, more \in BOOLEAN :
             \E l \in Option(RemoteIds(adj.left)), r \in Option(RemoteIds(adj.right)) :
                gossip_graph(fp, adj, l, r, more)

\* the ticks of the gossip loops of a relay whose neighbours come and go
InitTick == InitGossip /\ global_identity = Some(MyFp)

NextTick ==
    \/ \E fp \in GossipRemotes : \E descr \in RemoteIds(fp) : manage_mux(descr)
    \/ \E fp \in GossipRemotes : manage_mux_died(fp)
    \/ \E fp \in GossipRemotes, id \in Option(AnyRemoteId) : fetch_identity(fp, id)
    \/ \E fp \in GossipRemotes, complete \in Option(TickAdjs) :
         gossip_sign_adjacency(fp, complete)
    \/ \E fp \in GossipRemotes, adj \in TickAdjs, more \in BOOLEAN :
         \E l \in Option(RemoteIds(adj.left)), r \in Option(RemoteIds(adj.right)) :
            gossip_graph(fp, adj, l, r, more)

SpecTick == InitTick /\ [][NextTick]_vars

\* C34: a gossip tick that ends in an RPC error or a refusal leaves the link
\* up, its neighbour registered with its queue, and its gossip loop at the
\* start of the next tick; a link goes down only when it dies
C34_GossipErrorKeepsTheLink ==
    /\ [][\A fp \in GossipRemotes :
            GossipOnceFails(fp) =>
                /\ fp \in DOMAIN neigh_table'
                /\ neigh_table'[fp] = neigh_table[fp]
                /\ fp \in DOMAIN gossip_pc'
                /\ gossip_pc'[fp] = "fetch_identity"]_vars
    /\ [][\A fp \in DOMAIN neigh_table :
            fp \notin DOMAIN neigh_table' => manage_mux_died(fp)]_vars

C36_NeighboursHaveAnIdentity ==
    /\ [](\A fp \in DOMAIN neigh_table : fp \in all_nodes(relay_graph))
    /\ [][\A fp \in GossipRemotes :
            (fp \notin DOMAIN neigh_table /\ fp \in DOMAIN neigh_table') =>
                /\ identity(relay_graph', fp) # None
                /\ verify(fp, identity(relay_graph', fp).onion_pk,
                          identity(relay_graph', fp).sig)]_vars

\* relay 3 is a neighbour, relay 1 is not and has no identity in the graph
C36_Witness ==
    /\ DOMAIN neigh_table = {3}
    /\ all_nodes(relay_graph) = {MyFp, 3}

\* the link to relay 3 is up and at the start of a tick after its
\* sign_adjacency RPC was issued and nothing was inserted
C34_Witness ==
    /\ global_identity = Some(MyFp)
    /\ 3 \in DOMAIN neigh_table
    /\ 3 \in DOMAIN gossip_pc
    /\ gossip_pc[3] = "fetch_identity"
    /\ sign_rpc[3] = "issued"
    /\ relay_graph.adjs = {}

(***************************************************************************)
(* The sign_adjacency RPC server of a relay (link_protocol_impl.rs), with   *)
(* the answer it gives.  Relay neighbours come and go; a remote may send    *)
(* any descriptor.                                                          *)
(***************************************************************************)
\* to_sign signed by fp: what sign_adjacency puts in right_sig
with_right_sig(fp, d) == [d EXCEPT !.right_sig = Sign(fp, to_sign(d))]

\* sign_adjacency that does not ask whether left is a connected neighbour
sign_adjacency_rpc_any_left(left_incomplete) ==
    LET my_fp  == global_identity[1]
        valid  == /\ left_incomplete.left < left_incomplete.right
                  /\ left_incomplete.right = my_fp
        signed == with_right_sig(my_fp, left_incomplete)
        r      == insert_adjacency(relay_graph, signed)
    IN  /\ global_identity # None
        /\ IF ~valid
           THEN /\ sign_call' = Some([desc |-> left_incomplete, reply |-> None])
                /\ UNCHANGED relay_graph
           ELSE /\ relay_graph' = r.g
                /\ sign_call' = Some([desc |-> left_incomplete,
                                      reply |-> IF r.ok THEN Some(signed) ELSE None])
        /\ UNCHANGED <<peelOnlyVars, routeVars, surbVars, storeVars, extNoSign,
                       neigh_table, global_identity, gossip_pc, sign_rpc, adj_paths>>

\* sign_adjacency that inserts what it signed before it looks at valid
sign_adjacency_rpc_insert_first(left_incomplete) ==
    LET my_fp  == global_identity[1]
        valid  == /\ left_incomplete.left < left_incomplete.right
                  /\ left_incomplete.right = my_fp
                  /\ is_relay_neigh(left_incomplete.left)
        signed == with_right_sig(my_fp, left_incomplete)
        r      == insert_adjacency(relay_graph, signed)
    IN  /\ global_identity # None
        /\ relay_graph' = r.g
        /\ sign_call' = Some([desc |-> left_incomplete,
                              reply |-> IF valid /\ r.ok THEN Some(signed) ELSE None])
        /\ UNCHANGED <<peelOnlyVars, routeVars, surbVars, storeVars, extNoSign,
                       neigh_table, global_identity, gossip_pc, sign_rpc, adj_paths>>

\* LinkProtocolImpl::sign_adjacency(left_incomplete) served by a relay, with
\* its answer: None when valid is false or insert_adjacency fails, and the
\* descriptor with right_sig filled in otherwise
sign_adjacency_rpc(left_incomplete) ==
    LET my_fp  == global_identity[1]
        valid  == /\ left_incomplete.left < left_incomplete.right
                  /\ left_incomplete.right = my_fp
                  /\ is_relay_neigh(left_incomplete.left)
        signed == with_right_sig(my_fp, left_incomplete)
        r      == insert_adjacency(relay_graph, signed)
    IN  /\ global_identity # None
        /\ IF ~valid
           THEN /\ sign_call' = Some([desc |-> left_incomplete, reply |-> None])
                /\ UNCHANGED relay_graph
           ELSE /\ relay_graph' = r.g
                /\ sign_call' = Some([desc |-> left_incomplete,
                                      reply |-> IF r.ok THEN Some(signed) ELSE None])
        /\ UNCHANGED <<peelOnlyVars, routeVars, surbVars, storeVars, extNoSign,
                       neigh_table, global_identity, gossip_pc, sign_rpc, adj_paths>>

\* a relay that has just started, with no link up
InitSign ==
    /\ InitGossip
    /\ global_identity = Some(MyFp)

NextSign ==
    \/ \E fp \in GossipRemotes : \E descr \in RemoteIds(fp) : manage_mux(descr)
    \/ \E fp \in GossipRemotes : manage_mux_died(fp)
    \/ \E d \in RemoteAdjs : sign_adjacency_rpc(d)

SpecSign == InitSign /\ [][NextSign]_vars

\* the three conditions of sign_adjacency on descriptor d, in the state of the call
sign_valid(d) == d.left < d.right /\ d.right = MyFp /\ d.left \in DOMAIN neigh_table

\* the graph takes d once this relay has signed it: it knows the identity of
\* left, and the signature of left verifies
graph_accepts(d) ==
    /\ d.left \in all_nodes(relay_graph)
    /\ verify(d.left, to_sign(d), d.left_sig)

\* the graph holds an adjacency of the ends of d that is newer than d
holds_newer(g, d) ==
    \E a \in g.adjs : /\ a.left = d.left /\ a.right = d.right
                      /\ a.unix_timestamp > d.unix_timestamp

\* C27 as stated: the server answers with the descriptor completed by its
\* signature, and has it in its graph, exactly when left < right, right is its
\* own fingerprint and left is a connected relay neighbour; in every other case
\* it answers None
C27_SignsIffOrderedMineAndConnected ==
    [][\A d \in RemoteAdjs :
          sign_adjacency_rpc(d) =>
             IF sign_valid(d)
             THEN /\ sign_call'[1].reply = Some(with_right_sig(MyFp, d))
                  /\ with_right_sig(MyFp, d) \in relay_graph'.adjs
             ELSE sign_call'[1].reply = None]_vars

\* C27, amended: the server answers with the descriptor completed by its
\* signature exactly when the three conditions hold and the graph accepts the
\* insertion, and then the graph holds it, or a newer adjacency of the same
\* ends; in every other case it answers None
C27_SignsIffValidAndAccepted ==
    [][\A d \in RemoteAdjs :
          sign_adjacency_rpc(d) =>
             IF sign_valid(d) /\ graph_accepts(d)
             THEN /\ sign_call'[1].reply = Some(with_right_sig(MyFp, d))
                  /\ \/ with_right_sig(MyFp, d) \in relay_graph'.adjs
                     \/ holds_newer(relay_graph, d) /\ relay_graph' = relay_graph
             ELSE sign_call'[1].reply = None]_vars

\* the server has signed and returned a descriptor of neighbour 1, and holds it
C27_Witness ==
    /\ sign_call # None
    /\ sign_call[1].desc.left = 1
    /\ sign_call[1].reply = Some(with_right_sig(MyFp, sign_call[1].desc))
    /\ sign_call[1].reply[1] \in relay_graph.adjs
    /\ 1 \in DOMAIN neigh_table

\* C28: when the server refuses a descriptor, because left >= right, because
\* right is not this node, because left is not a connected relay neighbour, or
\* because the graph rejects the insertion, its RelayGraph is as it was and the
\* answer is None
C28_RefusalLeavesGraphUnchanged ==
    [][\A d \in RemoteAdjs :
          (sign_adjacency_rpc(d) /\ ~(sign_valid(d) /\ graph_accepts(d))) =>
             /\ relay_graph' = relay_graph
             /\ sign_call'[1].reply = None]_vars

\* the server holds an adjacency it signed earlier, and has since refused a
\* descriptor of its connected left neighbour whose left signature is bad
C28_Witness ==
    /\ sign_call # None
    /\ sign_call[1].reply = None
    /\ sign_call[1].desc.left = 1 /\ sign_call[1].desc.right = MyFp
    /\ sign_call[1].desc.left_sig = EmptySig
    /\ 1 \in DOMAIN neigh_table
    /\ relay_graph.adjs # {}

\* LinkProtocolImpl::sign_adjacency as served on one link: the LinkService of
\* manage_mux holds remote_relay_fp, the relay fingerprint of the link's remote,
\* None when the remote is a client
sign_adjacency_on_link(remote_relay_fp, left_incomplete) ==
    LET my_fp  == global_identity[1]
        valid  == /\ left_incomplete.left < left_incomplete.right
                  /\ left_incomplete.right = my_fp
                  /\ is_relay_neigh(left_incomplete.left)
        signed == with_right_sig(my_fp, left_incomplete)
        r      == insert_adjacency(relay_graph, signed)
    IN  /\ global_identity # None
        /\ IF remote_relay_fp = None THEN DOMAIN client_table # {}
           ELSE is_relay_neigh(remote_relay_fp[1])
        /\ IF ~valid
           THEN /\ sign_call' = Some([desc |-> left_incomplete, reply |-> None,
                                      remote_relay_fp |-> remote_relay_fp])
                /\ UNCHANGED relay_graph
           ELSE /\ relay_graph' = r.g
                /\ sign_call' = Some([desc |-> left_incomplete,
                                      reply |-> IF r.ok THEN Some(signed) ELSE None,
                                      remote_relay_fp |-> remote_relay_fp])
        /\ UNCHANGED <<peelOnlyVars, routeVars, surbVars, storeVars, extNoSign,
                       neigh_table, global_identity, gossip_pc, sign_rpc, adj_paths>>

\* a relay whose client and relay neighbours all may call sign_adjacency
NextSignLink ==
    \/ \E fp \in GossipRemotes : \E descr \in RemoteIds(fp) : manage_mux(descr)
    \/ \E fp \in GossipRemotes : manage_mux_died(fp)
    \/ \E remote \in Option(GossipRemotes), d \in RemoteAdjs :
          sign_adjacency_on_link(remote, d)

SpecSignLink == InitSign /\ [][NextSignLink]_vars

\* C37: the handler of a link completes and stores a descriptor only when its
\* left fingerprint is that of the link's remote relay; on the link of a client
\* it completes none
C37_SignsOnlyForTheLinkPeer ==
    sign_call # None =>
        LET call == sign_call[1]
        IN  call.reply # None => call.remote_relay_fp = Some(call.desc.left)

(***************************************************************************)
(* gossip_once on a link whose remote is a client (gossip.rs): the link of  *)
(* client 7 is up, and the gossip_loop of its manage_mux ticks.  gossip_pc  *)
(* of the link is "gossip_graph" from the moment the adjacencies RPC is     *)
(* sent until the answer is worked off.                                     *)
(***************************************************************************)
\* gossip_once(ctx, link, None): `if let Some(remote_fp) = remote_fp` skips
\* fetch_identity and sign_adjacency; gossip_graph is called all the same and
\* sends adjacencies(random_sample) to the remote
gossip_once_no_remote_fp(l) ==
    /\ l \in DOMAIN gossip_pc
    /\ gossip_pc[l] = "fetch_identity"
    /\ gossip_pc' = [gossip_pc EXCEPT ![l] = "gossip_graph"]
    /\ UNCHANGED <<nonGossipVars, relay_graph, neigh_table, global_identity, sign_rpc,
                   adj_paths>>

\* gossip_graph when the RPC fails or the answer holds no adjacency
gossip_graph_nothing(l) ==
    /\ l \in DOMAIN gossip_pc
    /\ gossip_pc[l] = "gossip_graph"
    /\ gossip_pc' = [gossip_pc EXCEPT ![l] = "fetch_identity"]
    /\ UNCHANGED <<nonGossipVars, relay_graph, neigh_table, global_identity, sign_rpc,
                   adj_paths>>

\* the graph of a node that has just started
StartGraph ==
    IF global_identity = None THEN EmptyGraph
    ELSE [EmptyGraph EXCEPT !.ids = {IdentityDescriptor(MyFp)}]

\* a node, relay or client, whose only link is the one to client 7
InitClientLink ==
    /\ PeelAtRest
    /\ global_identity \in {Some(MyFp), None}
    /\ relay_graph = StartGraph
    /\ neigh_table = <<>>
    /\ gossip_pc = [l \in {Client(c) : c \in ClientIds} |-> "fetch_identity"]
    /\ sign_rpc = [fp \in Fingerprints |-> "none"]
    /\ adj_paths = {}
    /\ RouteAtRest
    /\ SurbAtRest
    /\ StoreAtRest
    /\ ExtAtRest

NextClientLink ==
    \/ \E c \in ClientIds : gossip_once_no_remote_fp(Client(c))
    \/ \E c \in ClientIds : gossip_graph_nothing(Client(c))
    \/ \E c \in ClientIds, adj \in RemoteAdjs, more \in BOOLEAN :
         \E l \in Option(RemoteIds(adj.left)), r \in Option(RemoteIds(adj.right)) :
            gossip_graph(Client(c), adj, l, r, more)

SpecClientLink == InitClientLink /\ [][NextClientLink]_vars

\* C29: on a link whose remote is a client a gossip tick issues no RPC (no
\* adjacencies request is ever out on the link) and the RelayGraph stays as
\* it was
C29_ClientLinkTickDoesNothing ==
    \A c \in ClientIds :
        Client(c) \in DOMAIN gossip_pc =>
            /\ gossip_pc[Client(c)] # "gossip_graph"
            /\ relay_graph = StartGraph

(***************************************************************************)
(* Next-hop selection: network::one_hop_closer, and client_one_hop_closer   *)
(* and relay_one_hop_closer of daemon/peel_forward.rs.  They are functions   *)
(* of the relay graph and the table of connected relay neighbours; SpecRoute *)
(* draws both and applies the functions.                                     *)
(***************************************************************************)
\* usize::MAX: larger than the length of every route
usize_MAX == Cardinality(Fingerprints) + 1

\* the orders in which a concurrent map may yield the keys in S
Orders(S) ==
    {o \in [1..Cardinality(S) -> S] : \A i, j \in 1..Cardinality(S) : i # j => o[i] # o[j]}

\* the loop of one_hop_closer and client_one_hop_closer over my_neighs[i..]:
\* a neighbour replaces next_hop only when its route is strictly shorter
RECURSIVE closer_loop(_, _, _, _, _)
closer_loop(my_neighs, dest, i, shortest_route_len, next_hop) ==
    IF i > Len(my_neighs) THEN next_hop
    ELSE LET neigh == my_neighs[i]
             len   == route_len(relay_graph, neigh, dest)
         IN  IF len > 0 /\ len < shortest_route_len
             THEN closer_loop(my_neighs, dest, i + 1, len, Some(neigh))
             ELSE closer_loop(my_neighs, dest, i + 1, shortest_route_len, next_hop)

\* network::one_hop_closer(dest), my_neighs being RELAY_SPIDER.keys(); the
\* result None stands for the two errors it can return
one_hop_closer(dest, my_neighs) ==
    /\ my_neighs \in Orders(DOMAIN neigh_table)
    /\ route_result' =
          Some([fn |-> "one_hop_closer", dest |-> dest,
                next_hop |-> IF Len(my_neighs) = 0 THEN None
                             ELSE closer_loop(my_neighs, dest, 1, usize_MAX, None)])
    /\ UNCHANGED <<peelVars, relay_graph, gossipVars, extVars, surbVars, storeVars>>

\* client_one_hop_closer(dest), my_neighs being the keys NEIGH_TABLE_NEW.iter() yields
client_one_hop_closer(dest, my_neighs) ==
    /\ my_neighs \in Orders(DOMAIN neigh_table)
    /\ route_result' =
          Some([fn |-> "client_one_hop_closer", dest |-> dest,
                next_hop |-> closer_loop(my_neighs, dest, 1, usize_MAX, None)])
    /\ UNCHANGED <<peelVars, relay_graph, gossipVars, extVars, surbVars, storeVars>>

\* a call of relay_one_hop_closer(dest_fp): which of several shortest paths
\* find_shortest_path returns is up to the graph library
call_relay_one_hop_closer(dest_fp, hop) ==
    /\ hop \in IF relay_one_hop_closer(dest_fp) = {} THEN {None}
               ELSE {Some(n) : n \in relay_one_hop_closer(dest_fp)}
    /\ route_result' = Some([fn |-> "relay_one_hop_closer", dest |-> dest_fp, next_hop |-> hop])
    /\ UNCHANGED <<peelVars, relay_graph, gossipVars, extVars, surbVars, storeVars>>

\* the adjacencies a relay graph may hold
RoutePairs == {<<l, r>> \in Fingerprints \X Fingerprints : l < r}

\* any relay graph over the four relays, any set of connected relay neighbours
InitRoute ==
    /\ PeelAtRest
    /\ GossipAtRest
    /\ SurbAtRest
    /\ StoreAtRest
    /\ ExtAtRest
    /\ \E ps \in SUBSET RoutePairs :
          relay_graph = [ids  |-> {IdentityDescriptor(fp) : fp \in Fingerprints},
                         adjs |-> {MkAdj(p[1], p[2], 1) : p \in ps}]
    /\ \E ns \in SUBSET (Fingerprints \ {MyFp}) : neigh_table = [fp \in ns |-> <<>>]
    /\ route_result = None

NextRoute ==
    \/ \E dest \in Fingerprints :
         \E my_neighs \in Orders(DOMAIN neigh_table) : one_hop_closer(dest, my_neighs)
    \/ \E dest \in Fingerprints :
         \E my_neighs \in Orders(DOMAIN neigh_table) : client_one_hop_closer(dest, my_neighs)
    \/ \E dest \in Fingerprints, hop \in Option(Fingerprints) :
         call_relay_one_hop_closer(dest, hop)

SpecRoute == InitRoute /\ [][NextRoute]_vars

\* the connected relay neighbours that have a path to dest
with_path(dest) == {n \in DOMAIN neigh_table : route_len(relay_graph, n, dest) > 0}

\* C6: what a one_hop_closer function returns is a connected relay neighbour
\* whose shortest path to the destination is minimal among the connected
\* neighbours, and it fails exactly when no connected neighbour has a path
C6_ClosestConnectedNeighbour ==
    route_result # None =>
        LET dest == route_result[1].dest
            hop  == route_result[1].next_hop
        IN  IF with_path(dest) = {} THEN hop = None
            ELSE /\ hop # None
                 /\ hop[1] \in with_path(dest)
                 /\ \A n \in with_path(dest) :
                       route_len(relay_graph, hop[1], dest) <= route_len(relay_graph, n, dest)

\* the connected neighbours whose path to dest is as short as any
closest(dest) ==
    {n \in with_path(dest) :
        \A m \in with_path(dest) :
            route_len(relay_graph, n, dest) <= route_len(relay_graph, m, dest)}

\* C7: among the connected neighbours that are equally close, one_hop_closer
\* and client_one_hop_closer return the one with the smallest fingerprint,
\* whatever the iteration order was
C7_TiesGoToSmallestFingerprint ==
    (/\ route_result # None
     /\ route_result[1].fn \in {"one_hop_closer", "client_one_hop_closer"}
     /\ route_result[1].next_hop # None)
        => \A n \in closest(route_result[1].dest) : route_result[1].next_hop[1] <= n

(***************************************************************************)
(* Reply blocks.  This node, an anonymous sender, makes reply blocks and    *)
(* keeps a degarbler for each (daemon.rs send_message); whoever holds a     *)
(* reply block builds garbled replies with it (daemon.rs send_message,      *)
(* link_node.rs send_backwards); the replies come back to this node         *)
(* (daemon.rs peel_forward_loop, link_node.rs client_loop).                 *)
(***************************************************************************)
\* number of reply blocks made in one run of SpecSurb
MaxSurbs == 2
\* number of replies sent with one reply block in one run of SpecSurb
MaxReplies == 2
\* number of calls of send_backwards in one run of SpecSurb
MaxCalls == 3
SurbIds == 1..MaxSurbs
Bodies == {"a", "b"}

\* the replies sent so far with reply block id
replies_sent(id) == Len(delivered[id]) + Cardinality({p \in reply_pkts : p[1] = id})

\* send_message with an anonymous source: one of the reply blocks it makes
\* (ReplyBlock::new), whose degarbler is kept and which is sent to the peer
send_message_reply_blocks(id) ==
    /\ id \notin degarblers
    /\ degarblers' = degarblers \cup {id}
    /\ surbs_out' = surbs_out \cup {id}
    /\ UNCHANGED <<peelVars, relay_graph, gossipVars, extVars, routeVars, storeVars,
                   reply_pkts, delivered>>

\* send_message of daemon.rs to an anonymous destination: the reply block is
\* popped from anon_destinations, and the reply built with it sent
send_message_with_reply_block(id, body) ==
    /\ id \in surbs_out
    /\ replies_sent(id) < MaxReplies
    /\ surbs_out' = surbs_out \ {id}
    /\ reply_pkts' = reply_pkts \cup {<<id, body>>}
    /\ UNCHANGED <<peelVars, relay_graph, gossipVars, extVars, routeVars, storeVars,
                   degarblers, delivered>>

\* Surb.first_peeler: the first relay of the block's reverse route
first_peeler(id) == 2 + id

\* send_backwards without the test of ctx.my_id
send_backwards_any_identity(id, body) ==
    /\ id \in surbs_out
    /\ replies_sent(id) < MaxReplies
    /\ Len(sb_calls) < MaxCalls
    /\ injected' = Append(injected, [packet |-> <<id, body>>,
                                      next_peeler |-> first_peeler(id)])
    /\ reply_pkts' = reply_pkts \cup {<<id, body>>}
    /\ sb_calls' = Append(sb_calls, [reply_block |-> id, ok |-> TRUE])
    /\ UNCHANGED <<peelVars, relay_graph, gossipVars, extNoBack,
                   routeVars, storeVars, degarblers, surbs_out, delivered>>

\* LinkNode::send_backwards(reply_block, message): a relay builds the reply
\* (RawPacket::new_reply) and puts it on the send_raw channel as ToRelay with
\* next_peeler = reply_block.first_peeler; anyone else gets an error.  No
\* record of the block's use is kept.
send_backwards(id, body) ==
    /\ id \in surbs_out
    /\ replies_sent(id) < MaxReplies
    /\ Len(sb_calls) < MaxCalls
    /\ IF my_id # None /\ my_id[1] = "Relay"
       THEN /\ injected' = Append(injected, [packet |-> <<id, body>>,
                                             next_peeler |-> first_peeler(id)])
            /\ reply_pkts' = reply_pkts \cup {<<id, body>>}
            /\ sb_calls' = Append(sb_calls, [reply_block |-> id, ok |-> TRUE])
       ELSE /\ sb_calls' = Append(sb_calls, [reply_block |-> id, ok |-> FALSE])
            /\ UNCHANGED <<injected, reply_pkts>>
    /\ UNCHANGED <<peelVars, relay_graph, gossipVars, extNoBack,
                   routeVars, storeVars, degarblers, surbs_out, delivered>>

\* peel_forward_loop of daemon.rs on a packet that peels to GarbledReply:
\* the degarbler is looked up by id, and the degarbled message delivered
peel_garbled_reply(id, body) ==
    /\ <<id, body>> \in reply_pkts
    /\ reply_pkts' = reply_pkts \ {<<id, body>>}
    /\ delivered' = IF id \in degarblers THEN [delivered EXCEPT ![id] = Append(@, body)]
                    ELSE delivered
    /\ UNCHANGED <<peelVars, relay_graph, gossipVars, extVars, routeVars, storeVars,
                   degarblers, surbs_out>>

\* client_loop of link_node.rs on LinkMessage::ToClient: the body is passed
\* on as IncomingMsg::Backward with its rb_id
client_loop_to_client(id, body) ==
    /\ <<id, body>> \in reply_pkts
    /\ reply_pkts' = reply_pkts \ {<<id, body>>}
    /\ delivered' = [delivered EXCEPT ![id] = Append(@, body)]
    /\ UNCHANGED <<peelVars, relay_graph, gossipVars, extVars, routeVars, storeVars,
                   degarblers, surbs_out>>

\* the LinkNode is up, as a relay or as a client
InitSurb ==
    /\ PeelAtRest
    /\ LinksAtRest
    /\ GossipAtRest
    /\ RouteAtRest
    /\ misc = <<>>
    /\ chats = <<>>
    /\ running = TRUE
    /\ my_id \in {Relay(MyFp)} \cup {Client(c) : c \in ClientIds}
    /\ boots = 1
    /\ written = [n \in ChatNeighbors |-> <<>>]
    /\ last_snapshot = None
    /\ loaded = None
    /\ ExtAtRest
    /\ degarblers = {}
    /\ surbs_out = {}
    /\ reply_pkts = {}
    /\ delivered = [id \in SurbIds |-> <<>>]

NextSurb ==
    \/ \E id \in SurbIds : send_message_reply_blocks(id)
    \/ \E id \in SurbIds, body \in Bodies : send_message_with_reply_block(id, body)
    \/ \E id \in SurbIds, body \in Bodies : send_backwards(id, body)
    \/ \E id \in SurbIds, body \in Bodies : peel_garbled_reply(id, body)
    \/ \E id \in SurbIds, body \in Bodies : client_loop_to_client(id, body)

SpecSurb == InitSurb /\ [][NextSurb]_vars

\* reply blocks are handed out and send_backwards is called with them
NextBack ==
    \/ \E id \in SurbIds : send_message_reply_blocks(id)
    \/ \E id \in SurbIds, body \in Bodies : send_backwards(id, body)

SpecBack == InitSurb /\ [][NextBack]_vars

\* C15: send_backwards needs a relay identity: on a client every call returns an
\* error and puts no packet on the network; on a relay every call puts exactly
\* one reply packet on it, addressed to the reply block's first peeler
C15_OnlyRelaysSendBackwards ==
    IF my_id # None /\ my_id[1] = "Relay"
    THEN /\ Len(injected) = Len(sb_calls)
         /\ \A i \in 1..Len(sb_calls) :
               /\ sb_calls[i].ok
               /\ injected[i].packet[1] = sb_calls[i].reply_block
               /\ injected[i].next_peeler = first_peeler(sb_calls[i].reply_block)
    ELSE /\ injected = <<>>
         /\ \A i \in 1..Len(sb_calls) : ~sb_calls[i].ok

\* a relay has sent replies with two reply blocks, each to its block's first peeler
C15_Witness ==
    /\ my_id = Relay(MyFp)
    /\ Len(injected) = 2
    /\ injected[1].next_peeler # injected[2].next_peeler

\* C8: at most one reply is delivered for a reply block; a further reply that
\* carries the same id is not delivered
C8_OneReplyPerSurb == \A id \in DOMAIN delivered : Len(delivered[id]) <= 1

(***************************************************************************)
(* The link store (link_node/link_store.rs) and what LinkNode keeps in it   *)
(* (link_node.rs).  The tables outlive the process; its memory does not.    *)
(***************************************************************************)
\* number of rows written to table chats in one run of SpecStore
MaxChats == 3
\* number of times the node is started in one run of SpecStore
MaxBoots == 2

\* RelayGraph::stdcode, and stdcode::deserialize to a RelayGraph
stdcode(g) == <<"stdcode", g>>
stdcode_deserialize(bytes) == IF bytes[1] = "stdcode" THEN Some(bytes[2]) ELSE None

\* u64::to_le_bytes and u64::from_le_bytes
to_le_bytes(id) == <<"le_bytes", id>>
from_le_bytes(bytes) == bytes[2]

\* serde_json::to_string(&neighbor) of a NodeId: the variant's name and its value
to_json(n) == <<"json", n[1], n[2]>>

\* LinkStore::get_misc(key)
get_misc(key) == IF key \in DOMAIN misc THEN Some(misc[key]) ELSE None

\* LinkStore::insert_misc(key, value): insert, or update on conflict
insert_misc(m, key, value) ==
    [k \in DOMAIN m \cup {key} |-> IF k = key THEN value ELSE m[k]]

\* get_chat_history without its WHERE clause
get_chat_history_of_all(neighbor) ==
    [i \in 1..Len(chats) |->
        [text |-> chats[i].text, timestamp |-> chats[i].timestamp,
         is_outgoing |-> chats[i].is_outgoing]]

\* LinkStore::get_chat_history(neighbor): the rows of the neighbour, in the
\* order the scan of the table yields them, as ChatEntry values
get_chat_history(neighbor) ==
    LET res == SelectSeq(chats, LAMBDA row : row.neighbor = to_json(neighbor))
    IN  [i \in 1..Len(res) |->
            [text |-> res[i].text, timestamp |-> res[i].timestamp,
             is_outgoing |-> res[i].is_outgoing]]

\* the client ids the random generator may propose
NewClientIds == {7, 8}

\* LinkStore::insert_chat_entry(neighbor, chat_entry)
insert_chat_entry(neighbor, chat_entry) ==
    /\ running
    /\ Len(chats) < MaxChats
    /\ chats' = Append(chats, [neighbor |-> to_json(neighbor),
                               timestamp |-> chat_entry.timestamp,
                               text |-> chat_entry.text,
                               is_outgoing |-> chat_entry.is_outgoing])
    /\ written' = [written EXCEPT ![neighbor] = Append(@, chat_entry)]
    /\ UNCHANGED <<peelVars, relay_graph, gossipVars, extVars, routeVars, surbVars,
                   misc, running, my_id, boots, last_snapshot, loaded>>

\* LinkNode::new: the graph is read from misc under "relay-graph"; a client
\* takes its id from misc under "my-client-id", storing a new one if none is there
LinkNode_new(new_client_id) ==
    LET stored == get_misc("relay-graph")
        parsed == IF stored = None THEN None ELSE stdcode_deserialize(stored[1])
        graph  == IF parsed = None THEN EmptyGraph ELSE parsed[1]
        id_now == get_misc("my-client-id")
    IN  /\ ~running
        /\ boots < MaxBoots
        /\ relay_graph' = graph
        /\ IF global_identity # None
           THEN /\ my_id' = Relay(global_identity[1])
                /\ misc' = misc
           ELSE IF id_now # None
                THEN /\ my_id' = Client(from_le_bytes(id_now[1]))
                     /\ misc' = misc
                ELSE /\ my_id' = Client(new_client_id)
                     /\ misc' = insert_misc(misc, "my-client-id", to_le_bytes(new_client_id))
        /\ running' = TRUE
        /\ boots' = boots + 1
        /\ loaded' = Some([graph |-> graph, snapshot |-> last_snapshot])
        /\ UNCHANGED <<peelVars, gossipVars, extVars, routeVars, surbVars,
                       chats, written, last_snapshot>>

\* save_relay_graph_loop of link_node_loop, every 10 s: the graph is written
\* to misc under "relay_graph"
save_relay_graph_loop ==
    /\ running
    /\ misc' = insert_misc(misc, "relay_graph", stdcode(relay_graph))
    /\ last_snapshot' = Some(relay_graph)
    /\ UNCHANGED <<peelVars, relay_graph, gossipVars, extVars, routeVars, surbVars,
                   chats, running, my_id, boots, written, loaded>>

\* gossip brings the running node an adjacency and the identities of its ends
gossip_learns(left, right) ==
    LET l == insert_identity(relay_graph, IdentityDescriptor(left))
        r == insert_identity(l.g, IdentityDescriptor(right))
        a == insert_adjacency(r.g, MkAdj(left, right, 1))
    IN  /\ running
        /\ relay_graph' = a.g
        /\ UNCHANGED <<peelVars, gossipVars, extVars, routeVars, surbVars, storeVars>>

\* the process ends; what it held in memory is gone
process_exit ==
    /\ running
    /\ running' = FALSE
    /\ relay_graph' = EmptyGraph
    /\ my_id' = None
    /\ UNCHANGED <<peelVars, gossipVars, extVars, routeVars, surbVars,
                   misc, chats, boots, written, last_snapshot, loaded>>

\* an empty store; the node is configured as a relay or as a client
InitStore ==
    /\ PeelAtRest
    /\ neigh_table = <<>>
    /\ relay_graph = EmptyGraph
    /\ global_identity \in {Some(MyFp), None}
    /\ gossip_pc = <<>>
    /\ sign_rpc = [fp \in Fingerprints |-> "none"]
    /\ adj_paths = {}
    /\ RouteAtRest
    /\ SurbAtRest
    /\ StoreAtRest
    /\ ExtAtRest

ChatEntries == [text : {"hi"}, timestamp : 1..MaxBoots, is_outgoing : BOOLEAN]

NextStore ==
    \/ \E id \in NewClientIds : LinkNode_new(id)
    \/ save_relay_graph_loop
    \/ gossip_learns(1, 2)
    \/ process_exit
    \/ \E n \in ChatNeighbors, e \in ChatEntries :
         e.timestamp = boots /\ insert_chat_entry(n, e)

SpecStore == InitStore /\ [][NextStore]_vars

\* C9: the graph a restarted node loads is the snapshot last written to the store
C9_GraphRoundTrips ==
    (loaded # None /\ loaded[1].snapshot # None)
        => loaded[1].graph = loaded[1].snapshot[1]

\* C10: whenever the node is up, before or after restarts, get_chat_history(n)
\* is exactly the entries written for n, in the order they were written
C10_HistoryIsWhatWasWritten ==
    running => \A n \in ChatNeighbors : get_chat_history(n) = written[n]

\* after a restart the history of the relay holds two different entries, the
\* first written before the restart, and the client has an entry of its own
C10_Witness ==
    /\ running
    /\ boots = 2
    /\ Len(get_chat_history(Relay(1))) = 2
    /\ get_chat_history(Relay(1))[1].timestamp = 1
    /\ get_chat_history(Relay(1))[1] # get_chat_history(Relay(1))[2]
    /\ Len(written[Client(1)]) = 1


(***************************************************************************)
(* The peel engine of network.rs: incoming_raw, called for every ToRelay    *)
(* message a link receives (inout_route.rs manage_mux), and send_raw.  A    *)
(* peeled Relay packet is sent on by a task of its own that first waits on  *)
(* a timer.  SpecNet runs the engine on this node against a clock.          *)
(***************************************************************************)
\* the clock of one run of SpecNet stops at MaxTime
MaxTime == 3
\* the time that may pass inside one call of incoming_raw
MaxLag == 1
NetPkts == 1..4
\* the next_peeler field of the ToRelay messages received
NetPeelers == {MyFp, 4}

\* what network::one_hop_closer(dest) may return, RELAY_SPIDER.keys() coming in
\* any order; None stands for its errors
one_hop_closer_results(dest) ==
    {closer_loop(o, dest, 1, usize_MAX, None) : o \in Orders(DOMAIN neigh_table)}

\* one_hop_closer(next_peeler) and RELAY_SPIDER.send(&next_hop, (pkt, next_peeler));
\* sent tells whether the packet was handed to a link
forward_one_hop_closer(pkt, next_peeler, sent) ==
    \E hop \in one_hop_closer_results(next_peeler) :
        IF hop = None \/ hop[1] \notin DOMAIN neigh_table
        THEN /\ ~sent
             /\ UNCHANGED neigh_table
        ELSE /\ sent
             /\ neigh_table' = [neigh_table EXCEPT ![hop[1]] = Append(@, <<pkt, next_peeler>>)]

\* incoming_raw that takes MyFp for the fingerprint of a node without identity
incoming_raw_no_identity_check(next_peeler, pkt, lag) ==
    IF Hash(pkt) \in pkts_seen
    THEN UNCHANGED <<pkts_seen, timers, incoming, client_table, neigh_table, panicked>>
    ELSE /\ pkts_seen' = pkts_seen \cup {Hash(pkt)}
         /\ UNCHANGED panicked
         /\ IF next_peeler = MyFp
            THEN LET peeled == peel(pkt)
                 IN  CASE peeled.kind = "Relay" ->
                            /\ timers' = timers \cup
                                  {[pkt |-> peeled.pkt, next_peeler |-> peeled.next_peeler,
                                    delay_ms |-> peeled.delay_ms, t0 |-> now,
                                    emit_time |-> now + lag + peeled.delay_ms]}
                            /\ UNCHANGED <<incoming, client_table, neigh_table>>
                       [] peeled.kind = "Received" ->
                            /\ incoming' = incoming \cup {<<peeled.from, peeled.pkt>>}
                            /\ UNCHANGED <<timers, client_table, neigh_table>>
                       [] OTHER ->
                            UNCHANGED <<timers, incoming, client_table, neigh_table>>
            ELSE /\ \E sent \in BOOLEAN : forward_one_hop_closer(pkt, next_peeler, sent)
                 /\ UNCHANGED <<timers, incoming, client_table>>

\* network::incoming_raw(next_peeler, pkt), the call taking lag units of time
\* up to the point where emit_time is computed
incoming_raw(next_peeler, pkt, lag) ==
    IF global_identity = None
    THEN \* .expect("only relays have global identities")
         /\ panicked' = TRUE
         /\ UNCHANGED <<pkts_seen, timers, incoming, client_table, neigh_table>>
    ELSE IF Hash(pkt) \in pkts_seen
    THEN \* received replayed pkt
         UNCHANGED <<pkts_seen, timers, incoming, client_table, neigh_table, panicked>>
    ELSE /\ pkts_seen' = pkts_seen \cup {Hash(pkt)}
         /\ UNCHANGED panicked
         /\ IF next_peeler = global_identity[1]
            THEN LET peeled == peel(pkt)
                 IN  CASE peeled.kind = "Relay" ->
                            /\ timers' = timers \cup
                                  {[pkt |-> peeled.pkt, next_peeler |-> peeled.next_peeler,
                                    delay_ms |-> peeled.delay_ms, t0 |-> now,
                                    emit_time |-> now + lag + peeled.delay_ms]}
                            /\ UNCHANGED <<incoming, client_table, neigh_table>>
                       [] peeled.kind = "Received" ->
                            /\ incoming' = incoming \cup {<<peeled.from, peeled.pkt>>}
                            /\ UNCHANGED <<timers, client_table, neigh_table>>
                       [] peeled.kind = "GarbledReply" ->
                            /\ client_table' =
                                  IF peeled.client_id \in DOMAIN client_table
                                  THEN [client_table EXCEPT ![peeled.client_id] =
                                           Append(@, <<peeled.pkt, peeled.id>>)]
                                  ELSE client_table
                            /\ UNCHANGED <<timers, incoming, neigh_table>>
                       [] OTHER ->
                            UNCHANGED <<timers, incoming, client_table, neigh_table>>
            ELSE /\ \E sent \in BOOLEAN : forward_one_hop_closer(pkt, next_peeler, sent)
                 /\ UNCHANGED <<timers, incoming, client_table>>

\* what no action of the engine of network.rs changes
nonNetVars == <<debts, debt_cap, task, delay_queue, handed, effects, in_accepted, out_sent,
                counted,
                relay_graph, gossipVars, routeVars, surbVars, storeVars, extNoNet>>

\* recv_incoming of manage_mux on LinkMessage::ToRelay{pkt, next_peeler}
recv_incoming_to_relay(next_peeler, pkt, lag) ==
    /\ now + lag <= MaxTime
    /\ now' = now + lag
    /\ incoming_raw(next_peeler, pkt, lag)
    /\ UNCHANGED <<relay_emitted, nonNetVars>>

\* the task spawned for a Relay packet, without the wait on its timer
relay_timer_task_no_wait(tm) ==
    /\ tm \in timers
    /\ timers' = timers \ {tm}
    /\ \E sent \in BOOLEAN :
          /\ forward_one_hop_closer(tm.pkt, tm.next_peeler, sent)
          /\ relay_emitted' = IF sent THEN relay_emitted \cup {[tm EXCEPT !.emit_time = now]}
                              ELSE relay_emitted
    /\ UNCHANGED <<now, pkts_seen, incoming, client_table, panicked, nonNetVars>>

\* the task spawned for a Relay packet: smol::Timer::at(emit_time).await, then
\* send_raw(pkt, next_peeler), whose next_peeler is another relay.  What is
\* emitted is recorded with the time of the emission in place of emit_time.
relay_timer_task(tm) ==
    /\ tm \in timers
    /\ now >= tm.emit_time
    /\ timers' = timers \ {tm}
    /\ \E sent \in BOOLEAN :
          /\ forward_one_hop_closer(tm.pkt, tm.next_peeler, sent)
          /\ relay_emitted' = IF sent THEN relay_emitted \cup {[tm EXCEPT !.emit_time = now]}
                              ELSE relay_emitted
    /\ UNCHANGED <<now, pkts_seen, incoming, client_table, panicked, nonNetVars>>

\* time passes
clock_tick ==
    /\ now < MaxTime
    /\ now' = now + 1
    /\ UNCHANGED <<timers, relay_emitted, panicked, pkts_seen, incoming, client_table,
                   neigh_table, nonNetVars>>

\* a relay, or a client, linked to relay 3
InitNet ==
    /\ PeelAtRest
    /\ LinksAtRest
    /\ global_identity \in {Some(MyFp), None}
    /\ gossip_pc = <<>>
    /\ sign_rpc = [fp \in Fingerprints |-> "none"]
    /\ adj_paths = {}
    /\ RouteAtRest
    /\ SurbAtRest
    /\ StoreAtRest
    /\ ExtAtRest

NextNet ==
    \/ \E next_peeler \in NetPeelers, pkt \in NetPkts, lag \in 0..MaxLag :
         recv_incoming_to_relay(next_peeler, pkt, lag)
    \/ \E tm \in timers : relay_timer_task(tm)
    \/ clock_tick
    \/ \E fp \in DOMAIN neigh_table : link_send_relay(fp)
    \/ \E c \in DOMAIN client_table : link_send_client(c)

SpecNet == InitNet /\ [][NextNet]_vars

\* the same of network::incoming_raw on a relay: a fresh packet whose
\* next_peeler is another relay is not peeled; it is put as it came on the link
\* to a connected neighbour closest to next_peeler, or nothing is sent
TransitIsForwardedUnpeeled_network ==
    [][\A np \in NetPeelers, p \in NetPkts, lag \in 0..MaxLag :
          (/\ global_identity = Some(MyFp)
           /\ np # MyFp
           /\ Hash(p) \notin pkts_seen
           /\ recv_incoming_to_relay(np, p, lag)) =>
             /\ UNCHANGED <<timers, incoming, client_table>>
             /\ \/ UNCHANGED neigh_table
                \/ \E next_hop \in closest(np) :
                      neigh_table' = [neigh_table EXCEPT ![next_hop] = Append(@, <<p, np>>)]]_vars

\* number of packets that may wait on one link in a run of SpecClient
MaxQueued == 2

\* network::send_raw(packet, next_peeler): a client hands the packet to the
\* neighbour one hop closer to next_peeler; a relay runs incoming_raw when it
\* is next_peeler itself, and hands the packet on otherwise
send_raw(packet, next_peeler) ==
    /\ \A fp \in DOMAIN neigh_table : Len(neigh_table[fp]) < MaxQueued
    /\ IF global_identity = None
       THEN /\ \E sent \in BOOLEAN : forward_one_hop_closer(packet, next_peeler, sent)
            /\ UNCHANGED <<pkts_seen, timers, incoming, client_table, panicked>>
       ELSE IF next_peeler = global_identity[1]
       THEN incoming_raw(next_peeler, packet, 0)
       ELSE /\ \E sent \in BOOLEAN : forward_one_hop_closer(packet, next_peeler, sent)
            /\ UNCHANGED <<pkts_seen, timers, incoming, client_table, panicked>>
    /\ UNCHANGED <<now, relay_emitted, nonNetVars>>

\* a node without a relay identity, linked to relay 3
InitClient ==
    /\ InitNet
    /\ global_identity = None

NextClient ==
    \/ \E next_peeler \in NetPeelers, pkt \in NetPkts, lag \in 0..MaxLag :
         recv_incoming_to_relay(next_peeler, pkt, lag)
    \/ \E next_peeler \in NetPeelers, pkt \in NetPkts : send_raw(pkt, next_peeler)
    \/ clock_tick
    \/ \E fp \in DOMAIN neigh_table : link_send_relay(fp)

SpecClient == InitClient /\ [][NextClient]_vars

GarbledPkts == {2, 3, 7, 11}

NextGarbled ==
    \/ \E next_peeler \in NetPeelers, pkt \in GarbledPkts, lag \in 0..MaxLag :
         recv_incoming_to_relay(next_peeler, pkt, lag)
    \/ clock_tick
    \/ \E fp \in DOMAIN neigh_table : link_send_relay(fp)
    \/ \E c \in DOMAIN client_table : link_send_client(c)

SpecGarbled == InitNet /\ [][NextGarbled]_vars

\* C25: a fresh packet that this relay peels to GarbledReply{rb_id, pkt,
\* client_id} is, when client_id is 0, delivered locally and put on no link;
\* otherwise (pkt, rb_id) is put on the link of the client registered under
\* client_id and on no other, and nothing happens when there is no such client
C25_GarbledReplyLocalOrToItsClient ==
    [][\A p \in GarbledPkts, lag \in 0..MaxLag :
          (/\ global_identity = Some(MyFp)
           /\ Hash(p) \notin pkts_seen
           /\ peel(p).kind = "GarbledReply"
           /\ recv_incoming_to_relay(MyFp, p, lag)) =>
             LET client_id == peel(p).client_id
                 rb_id == peel(p).id
             IN  IF client_id = 0
                 THEN /\ incoming' # incoming
                      /\ UNCHANGED <<client_table, neigh_table>>
                 ELSE /\ UNCHANGED <<incoming, neigh_table>>
                      /\ client_table' =
                            IF client_id \in DOMAIN client_table
                            THEN [client_table EXCEPT ![client_id] =
                                     Append(client_table[client_id], <<peel(p).pkt, rb_id>>)]
                            ELSE client_table]_vars

\* the same for the replies that carry the id of a client: (pkt, rb_id) goes
\* to that client's link when it is connected, and nowhere otherwise
GarbledReplyToItsClient ==
    [][\A p \in GarbledPkts, lag \in 0..MaxLag :
          (/\ global_identity = Some(MyFp)
           /\ Hash(p) \notin pkts_seen
           /\ peel(p).kind = "GarbledReply"
           /\ peel(p).client_id # 0
           /\ recv_incoming_to_relay(MyFp, p, lag)) =>
             LET client_id == peel(p).client_id
                 rb_id == peel(p).id
             IN  /\ UNCHANGED <<incoming, neigh_table>>
                 /\ client_table' =
                       IF client_id \in DOMAIN client_table
                       THEN [client_table EXCEPT ![client_id] =
                                Append(client_table[client_id], <<peel(p).pkt, rb_id>>)]
                       ELSE client_table]_vars

\* C11: a packet peeled as Relay{next_peeler, pkt, delay_ms} at time t0 is not
\* sent on towards next_peeler before t0 + delay_ms
C11_NotBeforeItsDelay ==
    \A e \in relay_emitted : e.emit_time >= e.t0 + e.delay_ms

\* a peeled packet with a delay was sent on exactly when its delay had passed
C11_Witness ==
    \E e \in relay_emitted : e.delay_ms > 0 /\ e.emit_time = e.t0 + e.delay_ms

\* C23: a child packet released after its delay goes through the replay check
\* before it is sent to a neighbour: every child packet sent on has its hash
\* in the replay set
C23_ChildReentersAtStepOne ==
    \A e \in relay_emitted : Hash(e.pkt) \in pkts_seen


(***************************************************************************)
(* Out-routes: dial_out_route of daemon/inout_route.rs.  One task per       *)
(* configured out-route loops over dial, handshake (pipe_to_mux and         *)
(* Link::new_dial), manage_mux and a sleep of one second.  manage_mux runs   *)
(* inside the task, and so does everything it awaits.                        *)
(***************************************************************************)
\* links_made counts up to MaxLinks
MaxLinks == 2

\* what no action of a dial_out_route task changes
nonDialVars == <<peelVars, relay_graph, gossipVars, routeVars, surbVars, storeVars,
                 extNoDial>>

\* tcp_dialer.dial() / sosistab_dialer.dial(): an error ends this round of the loop
dial(r) ==
    /\ dial_pc[r] = "dial"
    /\ dial_pc' = [dial_pc EXCEPT ![r] = IF remote_up[r] THEN "handshake" ELSE "sleep"]
    /\ UNCHANGED <<remote_up, links_made, panicked, nonDialVars>>

\* manage_out_pipe up to manage_mux: pipe_to_mux and Link::new_dial
manage_out_pipe(r) ==
    /\ dial_pc[r] = "handshake"
    /\ IF remote_up[r]
       THEN /\ dial_pc' = [dial_pc EXCEPT ![r] = "linked"]
            /\ links_made' = [links_made EXCEPT ![r] = IF @ < MaxLinks THEN @ + 1 ELSE @]
       ELSE /\ dial_pc' = [dial_pc EXCEPT ![r] = "sleep"]
            /\ UNCHANGED links_made
    /\ UNCHANGED <<remote_up, panicked, nonDialVars>>

\* manage_mux returns: one of its loops got an error from the link
manage_mux_returns(r) ==
    /\ dial_pc[r] = "linked"
    /\ dial_pc' = [dial_pc EXCEPT ![r] = "sleep"]
    /\ UNCHANGED <<remote_up, links_made, panicked, nonDialVars>>

\* recv_incoming of manage_mux gets a ToRelay message over the link and awaits
\* network::incoming_raw, which on a node without a relay identity panics at
\* .expect("only relays have global identities"); the panic unwinds the task.
\* On a relay the packet is processed (SpecNet) and the loop goes on.
manage_mux_to_relay(r) ==
    /\ dial_pc[r] = "linked"
    /\ IF global_identity = None
       THEN /\ dial_pc' = [dial_pc EXCEPT ![r] = "panicked"]
            /\ panicked' = TRUE
       ELSE UNCHANGED <<dial_pc, panicked>>
    /\ UNCHANGED <<remote_up, links_made, nonDialVars>>

\* smol::Timer::after(Duration::from_secs(1)) at the end of the loop body
dial_sleep(r) ==
    /\ dial_pc[r] = "sleep"
    /\ dial_pc' = [dial_pc EXCEPT ![r] = "dial"]
    /\ UNCHANGED <<remote_up, links_made, panicked, nonDialVars>>

\* the remote of out-route r becomes reachable, or unreachable
remote_changes(r) ==
    /\ remote_up' = [remote_up EXCEPT ![r] = ~@]
    /\ UNCHANGED <<dial_pc, links_made, panicked, nonDialVars>>

\* a relay, or a client, with its out-routes configured
InitDial ==
    /\ PeelAtRest
    /\ LinksAtRest
    /\ global_identity \in {Some(MyFp), None}
    /\ gossip_pc = <<>>
    /\ sign_rpc = [fp \in Fingerprints |-> "none"]
    /\ adj_paths = {}
    /\ RouteAtRest
    /\ SurbAtRest
    /\ StoreAtRest
    /\ ExtAtRest

NextDial ==
    \E r \in OutRoutes :
        \/ dial(r)
        \/ manage_out_pipe(r)
        \/ manage_mux_returns(r)
        \/ manage_mux_to_relay(r)
        \/ dial_sleep(r)
        \/ remote_changes(r)

SpecDial == InitDial /\ [][NextDial]_vars

\* the executor runs every task that can take a step, and timers fire
SpecDialFair ==
    /\ SpecDial
    /\ \A r \in OutRoutes :
          WF_vars(dial(r)) /\ WF_vars(manage_out_pipe(r)) /\ WF_vars(dial_sleep(r))

\* C12: the dial task of every out-route never terminates, and after any
\* failure it sleeps and dials again: if from some point on the remote stays
\* reachable, a handshaken link is established again and again
C12_DialsUntilLinked ==
    \A r \in OutRoutes :
        /\ [](dial_pc[r] # "panicked")
        /\ (<>[]remote_up[r]) => []<>(dial_pc[r] = "linked")


(***************************************************************************)
(* A dialed link from its handshake to its end: manage_mux subscribes the   *)
(* remote in the Spiders and races six tasks (daemon/inout_route.rs).       *)
(* Out-route r leads to relay relay_of(r), whose client id is client_of(r). *)
(***************************************************************************)
relay_of(r) == IF r = 1 THEN 1 ELSE 4
client_of(r) == 7 + r
\* the futures raced at the end of manage_mux
RaceTasks == {"send_outgoing_client", "send_outgoing_relay", "rpc_serve", "gossip_loop",
              "recv_incoming", "chat_loop"}
\* those that return when the link fails them; gossip_loop discards every error
Fallible == RaceTasks \ {"gossip_loop"}

linkButAuth == <<pkts_seen, debts, debt_cap, task, delay_queue, incoming, handed, effects,
                 in_accepted, out_sent, counted, gossipVars, routeVars, surbVars, storeVars,
                 now, timers, relay_emitted, pairVars, backVars, debtVars, goiVars,
                 serveVars, fwdVars, innerVars, signVars, adjVars, batchVars, sendVars, sockVars>>
linkButDial == <<linkButAuth, authVars>>

\* manage_out_pipe: pipe_to_mux and Link::new_dial, then manage_mux up to the
\* first poll of its race: the remote's descriptor goes into RELAY_GRAPH, the
\* remote is subscribed in CLIENT_SPIDER and RELAY_SPIDER, the six tasks run
manage_out_pipe_mux(r, descr) ==
    LET ins == insert_identity(relay_graph, descr)
    IN  /\ dial_pc[r] = "handshake"
        /\ descr.identity_pk = relay_of(r)
        /\ IF remote_up[r] /\ ins.ok
           THEN /\ dial_pc' = [dial_pc EXCEPT ![r] = "linked"]
                /\ links_made' = [links_made EXCEPT ![r] = IF @ < MaxLinks THEN @ + 1 ELSE @]
                /\ relay_graph' = ins.g
                /\ client_table' = client_table @@ (client_of(r) :> <<>>)
                /\ neigh_table' = neigh_table @@ (relay_of(r) :> <<>>)
                /\ link_tasks' = [link_tasks EXCEPT ![r] = RaceTasks]
           ELSE /\ dial_pc' = [dial_pc EXCEPT ![r] = "sleep"]
                /\ UNCHANGED <<links_made, relay_graph, client_table, neigh_table, link_tasks>>
        /\ UNCHANGED <<remote_up, panicked, linkButDial>>

\* the race ends with the Receivers of the Spiders left subscribed
race_ends_still_subscribed(r, t) ==
    /\ dial_pc[r] = "linked"
    /\ t \in link_tasks[r] \cap Fallible
    /\ link_tasks' = [link_tasks EXCEPT ![r] = {}]
    /\ dial_pc' = [dial_pc EXCEPT ![r] = "sleep"]
    /\ UNCHANGED <<neigh_table, client_table>>
    /\ UNCHANGED <<links_made, relay_graph, remote_up, panicked, linkButDial>>

\* task t of the race returns: manage_mux returns what t returned and drops
\* the other futures, and with them the Receivers subscribed in the Spiders;
\* dial_out_route logs the error and goes to its sleep
race_ends(r, t) ==
    /\ dial_pc[r] = "linked"
    /\ t \in link_tasks[r] \cap Fallible
    /\ link_tasks' = [link_tasks EXCEPT ![r] = {}]
    /\ dial_pc' = [dial_pc EXCEPT ![r] = "sleep"]
    /\ neigh_table' = Drop(neigh_table, relay_of(r))
    /\ client_table' = Drop(client_table, client_of(r))
    /\ UNCHANGED <<links_made, relay_graph, remote_up, panicked, linkButDial>>

\* recv_incoming gets a ToRelay message on a node without a relay identity:
\* incoming_raw panics, and the panic unwinds manage_mux and the dial task
recv_incoming_panics(r) ==
    /\ dial_pc[r] = "linked"
    /\ "recv_incoming" \in link_tasks[r]
    /\ global_identity = None
    /\ panicked' = TRUE
    /\ dial_pc' = [dial_pc EXCEPT ![r] = "panicked"]
    /\ link_tasks' = [link_tasks EXCEPT ![r] = {}]
    /\ neigh_table' = Drop(neigh_table, relay_of(r))
    /\ client_table' = Drop(client_table, client_of(r))
    /\ UNCHANGED <<links_made, relay_graph, remote_up, linkButDial>>

NextLink ==
    \E r \in OutRoutes :
        \/ dial(r)
        \/ \E descr \in RemoteIds(relay_of(r)) : manage_out_pipe_mux(r, descr)
        \/ \E t \in RaceTasks : race_ends(r, t)
        \/ recv_incoming_panics(r)
        \/ dial_sleep(r)
        \/ remote_changes(r)

SpecLink == InitDial /\ [][NextLink]_vars

\* the executor runs the dial task when it can take a step, and its timer fires
SpecLinkFair ==
    /\ SpecLink
    /\ \A r \in OutRoutes : WF_vars(dial(r)) /\ WF_vars(dial_sleep(r))

AuthRoutes == {1}
\* the fingerprint the configuration of out-route r names
cfg_fingerprint(r) == relay_of(r)
\* the relays that may answer the dial of out-route r
Answering(r) == {relay_of(r), 4}

\* manage_out_pipe of dial_out_route: pipe_to_mux reads (their_client_id,
\* their_relay_descr) as the remote wrote them, Link::new_dial, and manage_mux
\* up to the first poll of its race.  Nothing reads a fingerprint from cfg:
\* a remote that sent a descriptor is subscribed under its fingerprint.
manage_out_pipe_auth(r, their_relay_descr) ==
    LET ins == IF their_relay_descr = None THEN [ok |-> TRUE, g |-> relay_graph]
               ELSE insert_identity(relay_graph, their_relay_descr[1])
        fp  == IF their_relay_descr = None THEN None
               ELSE Some(their_relay_descr[1].identity_pk)
    IN  /\ dial_pc[r] = "handshake"
        /\ IF remote_up[r]
           THEN /\ link_remote' = [link_remote EXCEPT ![r] = Some(fp)]
                /\ IF ins.ok
                   THEN /\ dial_pc' = [dial_pc EXCEPT ![r] = "linked"]
                        /\ links_made' =
                              [links_made EXCEPT ![r] = IF @ < MaxLinks THEN @ + 1 ELSE @]
                        /\ relay_graph' = ins.g
                        /\ client_table' = client_table @@ (client_of(r) :> <<>>)
                        /\ neigh_table' = IF fp = None THEN neigh_table
                                          ELSE neigh_table @@ (fp[1] :> <<>>)
                        /\ link_tasks' = [link_tasks EXCEPT ![r] = RaceTasks]
                   ELSE /\ dial_pc' = [dial_pc EXCEPT ![r] = "sleep"]
                        /\ UNCHANGED <<links_made, relay_graph, client_table, neigh_table,
                                       link_tasks>>
           ELSE /\ dial_pc' = [dial_pc EXCEPT ![r] = "sleep"]
                /\ UNCHANGED <<links_made, relay_graph, client_table, neigh_table,
                               link_tasks, link_remote>>
        /\ UNCHANGED <<remote_up, panicked, linkButAuth>>

\* task t of the race of the link of out-route r returns (race_ends), the
\* remote being whoever answered the handshake
race_ends_auth(r, t) ==
    /\ dial_pc[r] = "linked"
    /\ t \in link_tasks[r] \cap Fallible
    /\ link_tasks' = [link_tasks EXCEPT ![r] = {}]
    /\ dial_pc' = [dial_pc EXCEPT ![r] = "sleep"]
    /\ neigh_table' = IF link_remote[r][1] = None THEN neigh_table
                      ELSE Drop(neigh_table, link_remote[r][1][1])
    /\ client_table' = Drop(client_table, client_of(r))
    /\ UNCHANGED <<links_made, relay_graph, remote_up, panicked, link_remote, linkButAuth>>

\* what the remote of out-route r may send as their_relay_descr
AnsweringDescrs(r) == Option(UNION {RemoteIds(fp) : fp \in Answering(r)})

NextAuth ==
    \E r \in AuthRoutes :
        \/ dial(r)
        \/ \E d \in AnsweringDescrs(r) : manage_out_pipe_auth(r, d)
        \/ \E t \in RaceTasks : race_ends_auth(r, t)
        \/ dial_sleep(r)
        \/ remote_changes(r)

SpecAuth == InitDial /\ [][NextAuth]_vars

\* C31: a remote that answers the handshake of an out-route with another
\* fingerprint than the one the route is configured with is never registered
\* as a neighbour, and none of the tasks that move packets over the link runs
C31_WrongFingerprintIsFatal ==
    \A r \in AuthRoutes :
        (link_remote[r] # None /\ link_remote[r][1] # Some(cfg_fingerprint(r))) =>
            /\ dial_pc[r] # "linked"
            /\ \A fp \in DOMAIN neigh_table : link_remote[r][1] # Some(fp)
            /\ link_tasks[r] = {}

(***************************************************************************)
(* Two relays A < B and the link between them: on each side manage_mux      *)
(* runs gossip_once every second (gossip.rs) and serves the other side's     *)
(* RPCs (link_protocol_impl.rs).  Every RPC may fail, which ends the tick.   *)
(***************************************************************************)
\* ticks_done counts up to MaxTicks
MaxTicks == 2
\* the clock of one run of SpecPair stops at MaxUnix
MaxUnix == 2

\* what no action of the two gossiping relays changes
nonPairVars == <<peelVars, relay_graph, gossipVars, routeVars, surbVars, storeVars,
                 extNoPair>>

\* gossip_once returns: Ok counts as a completed tick; the loop sleeps and starts over
tick_ends(n, ok) ==
    /\ tick_pc' = [tick_pc EXCEPT ![n] = "fetch_identity"]
    /\ ticks_done' = [ticks_done EXCEPT ![n] = IF ok /\ @ < MaxTicks THEN @ + 1 ELSE @]

\* step 1, fetch_identity(remote_fp): the remote answers identity(remote_fp) from its graph
gossip_once_fetch_identity(n, rpc_ok) ==
    LET remote   == Other(n)
        their_id == {i \in graph_of[remote].ids : i.identity_pk = remote}
    IN  /\ tick_pc[n] = "fetch_identity"
        /\ IF rpc_ok /\ their_id # {}
           THEN LET r == insert_identity(graph_of[n], CHOOSE i \in their_id : TRUE)
                IN  /\ graph_of' = [graph_of EXCEPT ![n] = r.g]
                    /\ IF r.ok THEN /\ tick_pc' = [tick_pc EXCEPT ![n] = "sign_adjacency"]
                                    /\ UNCHANGED ticks_done
                       ELSE tick_ends(n, FALSE)
           ELSE /\ tick_ends(n, FALSE)
                /\ UNCHANGED graph_of
        /\ UNCHANGED <<sign_reply, unix_time, nonPairVars>>

\* LinkProtocolImpl::sign_adjacency without the insertion into the server's graph
LinkProtocolImpl_sign_adjacency_no_insert(srv, left_incomplete) ==
    LET valid  == /\ left_incomplete.left < left_incomplete.right
                  /\ left_incomplete.right = srv
                  /\ left_incomplete.left \in PairRelays \ {srv}
        signed == [left_incomplete EXCEPT !.right_sig = Sign(srv, to_sign(left_incomplete))]
    IN  IF ~valid THEN [reply |-> None, g |-> graph_of[srv]]
        ELSE [reply |-> Some(signed), g |-> graph_of[srv]]

\* LinkProtocolImpl::sign_adjacency served by relay srv: the answer, and the
\* server's graph afterwards.  The other relay is a connected relay neighbour.
LinkProtocolImpl_sign_adjacency(srv, left_incomplete) ==
    LET valid  == /\ left_incomplete.left < left_incomplete.right
                  /\ left_incomplete.right = srv
                  /\ left_incomplete.left \in PairRelays \ {srv}
        signed == [left_incomplete EXCEPT !.right_sig = Sign(srv, to_sign(left_incomplete))]
        r      == insert_adjacency(graph_of[srv], signed)
    IN  IF ~valid THEN [reply |-> None, g |-> graph_of[srv]]
        ELSE IF ~r.ok THEN [reply |-> None, g |-> r.g]
        ELSE [reply |-> Some(signed), g |-> r.g]

\* step 2, sign_adjacency(remote_fp), up to the answer of the RPC: only the
\* relay left of the remote asks; the remote serves the request
gossip_once_sign_adjacency(n, rpc_ok) ==
    LET remote == Other(n)
        left_incomplete ==
            [left |-> n, right |-> remote, left_sig |-> Sign(n, <<n, remote, unix_time>>),
             right_sig |-> EmptySig, unix_timestamp |-> unix_time]
        served == LinkProtocolImpl_sign_adjacency(remote, left_incomplete)
    IN  /\ tick_pc[n] = "sign_adjacency"
        /\ IF n < remote
           THEN IF rpc_ok
                THEN /\ graph_of' = [graph_of EXCEPT ![remote] = served.g]
                     /\ IF served.reply = None
                        THEN tick_ends(n, FALSE) /\ UNCHANGED sign_reply
                        ELSE /\ sign_reply' = [sign_reply EXCEPT ![n] = served.reply]
                             /\ tick_pc' = [tick_pc EXCEPT ![n] = "insert_complete"]
                             /\ UNCHANGED ticks_done
                ELSE /\ tick_ends(n, FALSE)
                     /\ UNCHANGED <<graph_of, sign_reply>>
           ELSE /\ tick_pc' = [tick_pc EXCEPT ![n] = "gossip_graph"]
                /\ UNCHANGED <<graph_of, sign_reply, ticks_done>>
        /\ UNCHANGED <<unix_time, nonPairVars>>

\* step 2, after the answer: insert_adjacency(complete)
gossip_once_insert_complete(n) ==
    LET r == insert_adjacency(graph_of[n], sign_reply[n][1])
    IN  /\ tick_pc[n] = "insert_complete"
        /\ graph_of' = [graph_of EXCEPT ![n] = r.g]
        /\ sign_reply' = [sign_reply EXCEPT ![n] = None]
        /\ IF r.ok THEN /\ tick_pc' = [tick_pc EXCEPT ![n] = "gossip_graph"]
                        /\ UNCHANGED ticks_done
           ELSE tick_ends(n, FALSE)
        /\ UNCHANGED <<unix_time, nonPairVars>>

\* the loop of gossip_graph over the adjacencies of the answer: the identities
\* of the ends that are not this relay are fetched from the remote unless
\* cached, and inserted; then the adjacency is inserted
RECURSIVE insert_gossiped(_, _, _, _)
insert_gossiped(n, g, adjs, fetch) ==
    IF adjs = {} THEN [ok |-> TRUE, g |-> g]
    ELSE LET a    == CHOOSE x \in adjs : TRUE
             ends == IF fetch THEN {a.left, a.right} \ {n} ELSE {}
             ids  == {i \in graph_of[Other(n)].ids : i.identity_pk \in ends}
             gi   == [g EXCEPT !.ids = {i \in @ : i.identity_pk \notin ends} \cup ids]
             r    == insert_adjacency(gi, a)
         IN  IF r.ok THEN insert_gossiped(n, r.g, adjs \ {a}, fetch)
             ELSE [ok |-> FALSE, g |-> gi]

\* step 3, gossip_graph: the remote answers adjacencies(sample) from its graph,
\* the sample being all the nodes this relay knows (there are fewer than 10)
gossip_once_gossip_graph(n, rpc_ok, fetch) ==
    LET remote == Other(n)
        sample == all_nodes(graph_of[n])
        answer == {a \in graph_of[remote].adjs : a.left \in sample \/ a.right \in sample}
        r      == insert_gossiped(n, graph_of[n], answer, fetch)
    IN  /\ tick_pc[n] = "gossip_graph"
        /\ IF rpc_ok
           THEN /\ graph_of' = [graph_of EXCEPT ![n] = r.g]
                /\ tick_ends(n, r.ok)
           ELSE /\ tick_ends(n, FALSE)
                /\ UNCHANGED graph_of
        /\ UNCHANGED <<sign_reply, unix_time, nonPairVars>>

\* a second passes
unix_second ==
    /\ unix_time < MaxUnix
    /\ unix_time' = unix_time + 1
    /\ UNCHANGED <<graph_of, tick_pc, sign_reply, ticks_done, nonPairVars>>

InitPair ==
    /\ PeelAtRest
    /\ LinksAtRest
    /\ GossipAtRest
    /\ RouteAtRest
    /\ SurbAtRest
    /\ StoreAtRest
    /\ ExtAtRest

NextPair ==
    \/ \E n \in PairRelays, rpc_ok \in BOOLEAN : gossip_once_fetch_identity(n, rpc_ok)
    \/ \E n \in PairRelays, rpc_ok \in BOOLEAN : gossip_once_sign_adjacency(n, rpc_ok)
    \/ \E n \in PairRelays : gossip_once_insert_complete(n)
    \/ \E n \in PairRelays, rpc_ok \in BOOLEAN, fetch \in BOOLEAN :
         gossip_once_gossip_graph(n, rpc_ok, fetch)
    \/ unix_second

SpecPair == InitPair /\ [][NextPair]_vars

\* the adjacencies graph g holds between A and B, in either direction
between(g) == {a \in g.adjs : {a.left, a.right} = PairRelays}

MaxDebtRows == 3
\* DebtEntry.delta, in micromels: an i64, negative when the neighbour pays
Deltas == {-1, 1, 2}

\* SQL values: NULL, and the integer v
Null == <<"NULL">>
Integer(v) == <<"INTEGER", v>>

\* SUM(delta) over the rows selected: NULL when no row is selected
RECURSIVE SUM(_)
SUM(rows) ==
    IF Len(rows) = 0 THEN Null
    ELSE LET rest == SUM(Tail(rows))
         IN  IF rest = Null THEN Integer(Head(rows).delta)
             ELSE Integer(Head(rows).delta + rest[2])

\* the one column of the one row an aggregate query returns, read as i64 by
\* query_as::<(i64,)>: SQLite hands out 0 for a NULL column read as an integer
decode_i64(column) == IF column = Null THEN 0 ELSE column[2]

\* get_debt without its WHERE clause
get_debt_of_all(neighbor) ==
    LET res == Some(decode_i64(SUM(debt_table)))
    IN  IF res = None THEN 0 ELSE res[1]

\* LinkStore::get_debt(neighbor): SELECT SUM(delta) FROM debts WHERE neighbor = $1,
\* fetch_optional, then res.map(|(sum,)| sum).unwrap_or(0)
get_debt(neighbor) ==
    LET rows == SelectSeq(debt_table, LAMBDA row : row.neighbor = to_json(neighbor))
        res  == Some(decode_i64(SUM(rows)))
    IN  IF res = None THEN 0 ELSE res[1]

\* LinkStore::insert_debt_entry(neighbor, debt_entry)
insert_debt_entry(neighbor, debt_entry) ==
    /\ Len(debt_table) < MaxDebtRows
    /\ debt_table' = Append(debt_table, [neighbor |-> to_json(neighbor),
                                         timestamp |-> debt_entry.timestamp,
                                         delta |-> debt_entry.delta,
                                         proof |-> debt_entry.proof])
    /\ debt_written' = [debt_written EXCEPT ![neighbor] = Append(@, debt_entry.delta)]
    /\ UNCHANGED <<peelVars, relay_graph, gossipVars, routeVars, surbVars, storeVars,
                   extNoDebt>>

DebtEntries == [delta : Deltas, timestamp : {1}, proof : {None}]

InitDebt ==
    /\ PeelAtRest
    /\ LinksAtRest
    /\ GossipAtRest
    /\ RouteAtRest
    /\ SurbAtRest
    /\ StoreAtRest
    /\ ExtAtRest

NextDebt == \E n \in DebtNeighbors, e \in DebtEntries : insert_debt_entry(n, e)

SpecDebt == InitDebt /\ [][NextDebt]_vars

\* the sum of a sequence of integers, 0 for the empty sequence
RECURSIVE SumOf(_)
SumOf(ds) == IF Len(ds) = 0 THEN 0 ELSE Head(ds) + SumOf(Tail(ds))

\* C16: get_debt(n) is the sum of delta over all the debt entries recorded for
\* n, and is 0 when none has been recorded for n
C16_DebtIsSumOfDeltas ==
    \A n \in DebtNeighbors : get_debt(n) = SumOf(debt_written[n])

\* a neighbour has entries that sum to a non-zero debt while another neighbour,
\* of the same number, has none, and a third has entries of its own
C16_Witness ==
    /\ Len(debt_written[Relay(1)]) = 2
    /\ get_debt(Relay(1)) = 1
    /\ debt_written[Client(1)] = <<>>
    /\ get_debt(Client(1)) = 0
    /\ get_debt(Relay(3)) = 2


(***************************************************************************)
(* LinkStore::get_or_insert_misc called by several tasks, or processes, on  *)
(* the same store.  The function awaits get_misc and then insert_misc: two   *)
(* statements on the pool, with other statements free to run in between.     *)
(***************************************************************************)
\* the key the callers use
GoiKey == "my-client-id"

\* what no step of get_or_insert_misc changes
nonGoiVars == <<peelVars, relay_graph, gossipVars, routeVars, surbVars, chats, running,
                my_id, boots, written, last_snapshot, loaded,
                extNoGoi>>

\* get_or_insert_misc(key, value), up to the answer of get_misc(key): a value
\* found is returned; otherwise the call goes on to insert
get_or_insert_misc_get(c, value) ==
    /\ goi_call[c].pc = "idle"
    /\ goi_call' = [goi_call EXCEPT ![c] =
                      IF get_misc(GoiKey) # None
                      THEN [pc |-> "done", value |-> Some(value), ret |-> get_misc(GoiKey)]
                      ELSE [pc |-> "insert", value |-> Some(value), ret |-> None]]
    /\ UNCHANGED <<misc, nonGoiVars>>

\* get_or_insert_misc, the else branch: insert_misc(key, value) and Ok(value)
get_or_insert_misc_insert(c) ==
    /\ goi_call[c].pc = "insert"
    /\ misc' = insert_misc(misc, GoiKey, goi_call[c].value[1])
    /\ goi_call' = [goi_call EXCEPT ![c] =
                      [pc |-> "done", value |-> goi_call[c].value, ret |-> goi_call[c].value]]
    /\ UNCHANGED nonGoiVars

InitGoi ==
    /\ PeelAtRest
    /\ LinksAtRest
    /\ GossipAtRest
    /\ RouteAtRest
    /\ SurbAtRest
    /\ StoreAtRest
    /\ ExtAtRest

NextGoi ==
    \/ \E c \in Callers, id \in NewClientIds : get_or_insert_misc_get(c, to_le_bytes(id))
    \/ \E c \in Callers : get_or_insert_misc_insert(c)

SpecGoi == InitGoi /\ [][NextGoi]_vars

\* C17: get_or_insert_misc is atomic: concurrent calls on the same absent key
\* with different values all return the same value, the one left in the store
C17_GetOrInsertIsAtomic ==
    \A c \in Callers :
        goi_call[c].pc = "done" =>
            /\ goi_call[c].ret = get_misc(GoiKey)
            /\ \A d \in Callers : goi_call[d].pc = "done" => goi_call[d].ret = goi_call[c].ret


(***************************************************************************)
(* The process as a whole.  main_daemon (daemon.rs) spawns one task per     *)
(* route and joins them; links deliver ToRelay messages to                   *)
(* network::incoming_raw and RPC requests to LinkProtocolImpl                *)
(* (link_protocol_impl.rs).  SpecServe runs the events a started node meets. *)
(***************************************************************************)
\* what the events below leave alone
nonServeVars == <<debts, debt_cap, task, delay_queue, handed, effects, in_accepted, out_sent,
                  counted,
                  relay_graph, gossipVars, routeVars, surbVars, storeVars,
                  dialVars, pairVars, backVars, debtVars, goiVars, fwdVars, innerVars, signVars, linkVars, authVars, adjVars, batchVars, sendVars, sockVars>>
netButPanicked == <<now, timers, relay_emitted, pkts_seen, incoming, client_table, neigh_table>>

\* a route task returns: Ok, or Err after a transport failure it does not handle
route_task_returns(t, res) ==
    /\ daemon_up
    /\ route_task[t] = "running"
    /\ route_task' = [route_task EXCEPT ![t] = res]
    /\ UNCHANGED <<daemon_up, rpc_reply, panicked, netButPanicked, nonServeVars>>

\* main_daemon: while let Some(next) = route_tasks.next().await { next?; }
main_daemon_join(t) ==
    /\ daemon_up
    /\ route_task[t] \in {"Ok", "Err"}
    /\ route_task' = [route_task EXCEPT ![t] = "joined"]
    /\ daemon_up' = (route_task[t] = "Ok")
    /\ UNCHANGED <<rpc_reply, panicked, netButPanicked, nonServeVars>>

\* LinkProtocolImpl::start_settlement(req): todo!()
LinkProtocolImpl_start_settlement ==
    /\ daemon_up
    /\ panicked' = TRUE
    /\ rpc_reply' = Some([method |-> "start_settlement", reply |-> "panic"])
    /\ UNCHANGED <<daemon_up, route_task, netButPanicked, nonServeVars>>

\* LinkProtocolImpl::request_seed(): todo!()
LinkProtocolImpl_request_seed ==
    /\ daemon_up
    /\ panicked' = TRUE
    /\ rpc_reply' = Some([method |-> "request_seed", reply |-> "panic"])
    /\ UNCHANGED <<daemon_up, route_task, netButPanicked, nonServeVars>>

\* a link hands a ToRelay message to network::incoming_raw
serve_to_relay(next_peeler, pkt) ==
    /\ daemon_up
    /\ recv_incoming_to_relay(next_peeler, pkt, 0)

\* a link hands a sign_adjacency request to the RPC server
serve_sign_adjacency_rpc(left_incomplete) ==
    /\ daemon_up
    /\ serve_sign_adjacency(left_incomplete)

\* a started node, relay or client, linked to relay 3
InitServe ==
    /\ PeelAtRest
    /\ LinksAtRest
    /\ global_identity \in {Some(MyFp), None}
    /\ gossip_pc = <<>>
    /\ sign_rpc = [fp \in Fingerprints |-> "none"]
    /\ adj_paths = {}
    /\ RouteAtRest
    /\ SurbAtRest
    /\ StoreAtRest
    /\ ExtAtRest

NextServe ==
    \/ \E t \in RouteTasks, res \in {"Ok", "Err"} : route_task_returns(t, res)
    \/ \E t \in RouteTasks : main_daemon_join(t)
    \/ LinkProtocolImpl_start_settlement
    \/ LinkProtocolImpl_request_seed
    \/ \E next_peeler \in NetPeelers, pkt \in NetPkts : serve_to_relay(next_peeler, pkt)
    \/ \E ts \in Timestamps : serve_sign_adjacency_rpc(
           [left |-> 3, right |-> MyFp, left_sig |-> Sign(3, <<3, MyFp, ts>>),
            right_sig |-> EmptySig, unix_timestamp |-> ts])

SpecServe == InitServe /\ [][NextServe]_vars

\* C18: every call of start_settlement and of request_seed returns None
C18_StubsReturnNone == rpc_reply # None => rpc_reply[1].reply = "None"

\* C19: once the node has started, nothing that happens at run time ends the
\* process or makes it panic: not a transport failure, not a route task that
\* ends with an error, not a sign_adjacency request served by a node without a
\* relay identity, not a ToRelay message received by a client
C19_NoRuntimeEventIsFatal == daemon_up /\ ~panicked


(***************************************************************************)
(* A forward from a client through relays: LinkNode::send_forward and the   *)
(* client_loop at the client (link_node.rs), and at every relay the engine  *)
(* of network.rs.  The relays R1, R2, R3 are linked pairwise and the client *)
(* is linked to R1; RELAY_GRAPH is at every node the graph of the three.    *)
(* Links lose nothing and no channel is full.                               *)
(***************************************************************************)
\* number of times the client's LinkMessage is sent to its first hop again
MaxReplays == 2
\* privacy_config.max_peelers
max_peelers == 3
\* the relay the forward is sent to
FwdDest == 3
\* the anonymous endpoints a forward is sent from
AnonEndpoints == {"anon7", "anon8"}

\* the relay graph after gossip: the three relays, adjacent pairwise
TriangleGraph ==
    [ids |-> {IdentityDescriptor(fp) : fp \in FwdRelays},
     adjs |-> {MkAdj(1, 2, 1), MkAdj(1, 3, 1), MkAdj(2, 3, 1)}]

\* RELAY_SPIDER.keys() at relay n: the relays it is linked to
spider_keys(n) == FwdRelays \ {n}

\* forward_route_to(graph, dest, max_peelers): the routes it may draw, which
\* are sequences of at most max_peelers relays of the graph that end in dest,
\* each adjacent to the next
forward_route_to(g, dest, max) ==
    {r \in UNION {[1..k -> all_nodes(g)] : k \in 1..max} :
        /\ r[Len(r)] = dest
        /\ \A i \in 1..(Len(r) - 1) : Adjacent(g, r[i], r[i + 1])}

\* route_to_instructs(graph, route): one ForwardInstruction for every relay of
\* the route but the last; None when an identity is missing from the graph
route_to_instructs(g, route) ==
    IF \E i \in 1..(Len(route) - 1) : identity(g, route[i]) = None THEN None
    ELSE Some([i \in 1..(Len(route) - 1) |->
                  [this_pubkey |-> identity(g, route[i]).onion_pk,
                   next_fingerprint |-> route[i + 1]]])

\* RawPacket::new_normal(instructs, dest_opk, inner, RemoteId::Anon(src)): one
\* layer for every instruction, and the innermost for the destination
new_normal(instructs, dest_opk, inner, src) ==
    [layers |-> [i \in 1..(Len(instructs) + 1) |->
                    IF i <= Len(instructs)
                    THEN [key |-> instructs[i].this_pubkey,
                          next |-> Some(instructs[i].next_fingerprint)]
                    ELSE [key |-> dest_opk, next |-> None]],
     inner |-> inner,
     src |-> src]

\* RawPacket::peel with MY_RELAY_ONION_SK of relay n
peel_with(n, pkt) ==
    LET layer == Head(pkt.layers)
    IN  IF layer.key # OnionPk(n) THEN [kind |-> "Err"]
        ELSE IF layer.next = None
             THEN [kind |-> "Received", from |-> pkt.src, pkt |-> pkt.inner]
             ELSE [kind |-> "Relay", next_peeler |-> layer.next[1],
                   pkt |-> [pkt EXCEPT !.layers = Tail(@)], delay_ms |-> 0]

\* one_hop_closer(next_peeler) at relay n and RELAY_SPIDER.send(&next_hop,
\* (pkt, next_peeler)): the wires w after it, for every order the keys may
\* come in; an error of one_hop_closer leaves them as they are
spider_send(n, w, pkt, next_peeler) ==
    {IF hop = None THEN w
     ELSE [w EXCEPT ![hop[1]] = Append(@, [packet |-> pkt, next_peeler |-> next_peeler])] :
        hop \in {closer_loop(o, next_peeler, 1, usize_MAX, None) : o \in Orders(spider_keys(n))}}

nonFwdVars == <<peelVars, relay_graph, gossipVars, routeVars, surbVars, storeVars, extNoFwd>>

\* LinkNode::send_forward(packet, src, dest_relay) at the client, route being
\* what forward_route_to drew: the onion is built and put on the send_raw channel
send_forward(packet, src, dest_relay, route) ==
    LET instructs == route_to_instructs(relay_graph, route)
        dest_id   == identity(relay_graph, dest_relay)
    IN  /\ fwd_sent = None
        /\ route \in forward_route_to(relay_graph, dest_relay, max_peelers)
        /\ instructs # None
        /\ dest_id # None
        /\ LET wrapped_onion == new_normal(instructs[1], dest_id.onion_pk, packet, src)
               msg == [packet |-> wrapped_onion, next_peeler |-> route[1]]
           IN  /\ send_raw_chan' = Append(send_raw_chan, msg)
               /\ fwd_sent' = Some([route |-> route, msg |-> msg, src |-> src, body |-> packet])
        /\ UNCHANGED <<wire, seen_at, timers_at, handled_at, dropped_at, recv_at, replays,
                       nonFwdVars>>

\* client_loop on a LinkMessage::ToRelay from the send_raw channel: it is
\* sent to the relay the client is linked to
client_loop_to_relay ==
    /\ send_raw_chan # <<>>
    /\ send_raw_chan' = Tail(send_raw_chan)
    /\ wire' = [wire EXCEPT ![FwdEntry] = Append(@, Head(send_raw_chan))]
    /\ UNCHANGED <<fwd_sent, seen_at, timers_at, handled_at, dropped_at, recv_at, replays,
                   nonFwdVars>>

\* what incoming_raw does at relay n with a packet it has not refused
incoming_raw_fresh(n, next_peeler, pkt, w, tms) ==
    /\ seen_at' = [seen_at EXCEPT ![n] = @ \cup {Hash(pkt)}]
    /\ handled_at' = [handled_at EXCEPT ![n] = Append(@, pkt)]
    /\ UNCHANGED dropped_at
    /\ IF next_peeler = n
       THEN LET peeled == peel_with(n, pkt)
            IN  /\ wire' = w
                /\ CASE peeled.kind = "Relay" ->
                          /\ timers_at' = [tms EXCEPT ![n] =
                                @ \cup {[pkt |-> peeled.pkt, next_peeler |-> peeled.next_peeler]}]
                          /\ UNCHANGED recv_at
                     [] peeled.kind = "Received" ->
                          /\ recv_at' = [recv_at EXCEPT ![n] =
                                Append(@, [kind |-> "Forward", from |-> peeled.from,
                                           body |-> peeled.pkt])]
                          /\ timers_at' = tms
                     [] OTHER -> timers_at' = tms /\ UNCHANGED recv_at
       ELSE /\ wire' \in spider_send(n, w, pkt, next_peeler)
            /\ timers_at' = tms
            /\ UNCHANGED recv_at

\* incoming_raw without the check of PKTS_SEEN
incoming_raw_at_no_replay_check(n, next_peeler, pkt, w, tms) ==
    incoming_raw_fresh(n, next_peeler, pkt, w, tms)

\* network::incoming_raw(next_peeler, pkt) at relay n, w and tms being the
\* wires and the timer tasks when it is called: a packet seen before is
\* refused; the designated peeler peels, spawns the timer task of a Relay
\* packet and passes a Received one on to recv(); any other relay sends the
\* packet one hop closer to its peeler
incoming_raw_at(n, next_peeler, pkt, w, tms) ==
    IF Hash(pkt) \in seen_at[n]
    THEN /\ dropped_at' = [dropped_at EXCEPT ![n] = @ + 1]
         /\ wire' = w
         /\ timers_at' = tms
         /\ UNCHANGED <<seen_at, handled_at, recv_at>>
    ELSE incoming_raw_fresh(n, next_peeler, pkt, w, tms)

\* recv_incoming of manage_mux at relay n on LinkMessage::ToRelay
relay_recv_incoming(n) ==
    /\ wire[n] # <<>>
    /\ incoming_raw_at(n, Head(wire[n]).next_peeler, Head(wire[n]).packet,
                       [wire EXCEPT ![n] = Tail(@)], timers_at)
    /\ UNCHANGED <<fwd_sent, send_raw_chan, replays, nonFwdVars>>

\* the task incoming_raw spawned at relay n for a Relay packet: its timer
\* expires and it calls send_raw(pkt, next_peeler)
timer_task_at(n, tm) ==
    /\ tm \in timers_at[n]
    /\ IF tm.next_peeler = n
       THEN incoming_raw_at(n, tm.next_peeler, tm.pkt, wire,
                            [timers_at EXCEPT ![n] = @ \ {tm}])
       ELSE /\ wire' \in spider_send(n, wire, tm.pkt, tm.next_peeler)
            /\ timers_at' = [timers_at EXCEPT ![n] = @ \ {tm}]
            /\ UNCHANGED <<seen_at, handled_at, dropped_at, recv_at>>
    /\ UNCHANGED <<fwd_sent, send_raw_chan, replays, nonFwdVars>>

\* the LinkMessage the client sent reaches the relay it is linked to once more
replay_at_entry ==
    /\ fwd_sent # None
    /\ replays < MaxReplays
    /\ replays' = replays + 1
    /\ wire' = [wire EXCEPT ![FwdEntry] = Append(@, fwd_sent[1].msg)]
    /\ UNCHANGED <<fwd_sent, send_raw_chan, seen_at, timers_at, handled_at, dropped_at,
                   recv_at, nonFwdVars>>

InitFwd ==
    /\ PeelAtRest
    /\ neigh_table = <<>>
    /\ relay_graph = TriangleGraph
    /\ GossipAtRest
    /\ RouteAtRest
    /\ SurbAtRest
    /\ StoreAtRest
    /\ ExtAtRest

NextFwd ==
    \/ \E packet \in Bodies, src \in AnonEndpoints :
         \E route \in forward_route_to(relay_graph, FwdDest, max_peelers) :
            send_forward(packet, src, FwdDest, route)
    \/ client_loop_to_relay
    \/ \E n \in FwdRelays : relay_recv_incoming(n)
    \/ \E n \in FwdRelays : \E tm \in timers_at[n] : timer_task_at(n, tm)
    \/ replay_at_entry

SpecFwd == InitFwd /\ [][NextFwd]_vars

\* the client's loop, the relays' link loops and the timer tasks are scheduled
\* whenever they have something to do
SpecFwdFair ==
    /\ SpecFwd
    /\ WF_vars(client_loop_to_relay)
    /\ \A n \in FwdRelays : WF_vars(relay_recv_incoming(n))
    /\ \A n \in FwdRelays : WF_vars(\E tm \in timers_at[n] : timer_task_at(n, tm))

\* nothing of the forward is on its way any more
FwdQuiet ==
    /\ fwd_sent # None
    /\ send_raw_chan = <<>>
    /\ \A n \in FwdRelays : wire[n] = <<>> /\ timers_at[n] = {}

\* IncomingMsg::Forward of what was sent
FwdExpected == [kind |-> "Forward", from |-> fwd_sent[1].src, body |-> fwd_sent[1].body]

\* the relays of the route drawn
on_route == {fwd_sent[1].route[i] : i \in 1..Len(fwd_sent[1].route)}

FwdSafe ==
    /\ \A n \in FwdRelays \ {FwdDest} : recv_at[n] = <<>>
    /\ Len(recv_at[FwdDest]) <= 1
    /\ recv_at[FwdDest] # <<>> => recv_at[FwdDest] = <<FwdExpected>>
    /\ \A n \in FwdRelays : \A i, j \in 1..Len(handled_at[n]) :
          i # j => handled_at[n][i] # handled_at[n][j]
    /\ FwdQuiet =>
          /\ recv_at[FwdDest] = <<FwdExpected>>
          /\ Len(handled_at[FwdEntry]) >= 1
          /\ Len(handled_at[2]) = IF 2 \in on_route THEN 1 ELSE 0
          /\ dropped_at[FwdEntry] = replays

MaxInner == 3
\* smol::channel::bounded(1_000_000), the channel behind incoming_send
RecvCap == 1000000
\* InnerPacket: a Message, or a batch of reply blocks
InnerPackets == {<<"Message", <<"a">>>>, <<"Message", <<"b">>>>,
                 <<"ReplyBlocks", <<1>>>>, <<"ReplyBlocks", <<2, 1>>>>}

\* Sender::try_send: the item is queued unless the channel is full
try_send(chan, item) == IF Len(chan) < RecvCap THEN Append(chan, item) ELSE chan

\* ReplyBlockStore::insert(source, reply_block): the block is kept under source
ReplyBlockStore_insert(store, source, reply_block) ==
    [store EXCEPT ![source] = Append(store[source], reply_block)]

\* for reply_block in reply_blocks { anon_destinations.insert(source, reply_block) }
RECURSIVE insert_each(_, _, _)
insert_each(store, source, reply_blocks) ==
    IF reply_blocks = <<>> THEN store
    ELSE insert_each(ReplyBlockStore_insert(store, source, Head(reply_blocks)),
                     source, Tail(reply_blocks))

nonInnerVars == <<peelVars, relay_graph, gossipVars, routeVars, surbVars, storeVars,
                  extNoInner>>

\* process_inner_pkt that keeps the last block of a batch only
process_inner_pkt_last_block(inner, source) ==
    /\ Len(inner_calls) < MaxInner
    /\ inner_calls' = Append(inner_calls, <<source, inner>>)
    /\ IF inner[1] = "Message"
       THEN /\ incoming_send' = try_send(incoming_send, <<inner[2], source>>)
            /\ UNCHANGED anon_destinations
       ELSE /\ anon_destinations' =
                  ReplyBlockStore_insert(anon_destinations, source, inner[2][Len(inner[2])])
            /\ UNCHANGED incoming_send
    /\ UNCHANGED nonInnerVars

\* process_inner_pkt(ctx, incoming_send, inner, source) of peel_forward_loop,
\* called with the inner packet and the sender of PeeledPacket::Received
process_inner_pkt(inner, source) ==
    /\ Len(inner_calls) < MaxInner
    /\ inner_calls' = Append(inner_calls, <<source, inner>>)
    /\ IF inner[1] = "Message"
       THEN /\ incoming_send' = try_send(incoming_send, <<inner[2], source>>)
            /\ UNCHANGED anon_destinations
       ELSE /\ anon_destinations' = insert_each(anon_destinations, source, inner[2])
            /\ UNCHANGED incoming_send
    /\ UNCHANGED nonInnerVars

NextInner ==
    \E inner \in InnerPackets, source \in InnerSources : process_inner_pkt(inner, source)

SpecInner == InitPeel /\ [][NextInner]_vars

\* the Messages among calls, each with its sender, in order
RECURSIVE messages_of(_)
messages_of(calls) ==
    IF calls = <<>> THEN <<>>
    ELSE LET c == calls[Len(calls)]
             before == messages_of(SubSeq(calls, 1, Len(calls) - 1))
         IN  IF c[2][1] = "Message" THEN Append(before, <<c[2][2], c[1]>>) ELSE before

\* the reply blocks that calls brought from source, batch after batch
RECURSIVE blocks_of(_, _)
blocks_of(calls, source) ==
    IF calls = <<>> THEN <<>>
    ELSE LET c == calls[Len(calls)]
             before == blocks_of(SubSeq(calls, 1, Len(calls) - 1), source)
         IN  IF c[2][1] = "ReplyBlocks" /\ c[1] = source THEN before \o c[2][2] ELSE before

\* C24: of the inner packets of the peels that yielded Received{from, inner},
\* the receive queue holds exactly the Messages, each tagged with its from,
\* and the anon-destinations pool holds under each from every block of every
\* batch of reply blocks that came from it; a batch puts nothing in the queue
C24_ReceivedGoesToQueueOrPool ==
    /\ incoming_send = messages_of(inner_calls)
    /\ \A f \in InnerSources : anon_destinations[f] = blocks_of(inner_calls, f)

C24_Witness ==
    /\ inner_calls = <<<<4, <<"ReplyBlocks", <<2, 1>>>>>>, <<5, <<"Message", <<"a">>>>>>,
                       <<4, <<"ReplyBlocks", <<1>>>>>>>>
    /\ incoming_send = <<<<<<"a">>, 5>>>>
    /\ anon_destinations[4] = <<2, 1, 1>>
    /\ anon_destinations[5] = <<>>

(***************************************************************************)
(* The adjacencies RPC (inout_route/link_protocol_impl.rs): for each       *)
(* requested fingerprint the adjacencies of the graph that touch it, one   *)
(* after the other, passed through Itertools::dedup.                       *)
(***************************************************************************)
MaxFps == 3
AdjFps == {1, 2, 3}
\* the requests: every sequence of at most MaxFps fingerprints
FpsRequests == UNION {[1..n -> AdjFps] : n \in 0..MaxFps}
\* the graphs served: three relays and any of the adjacencies between them
AdjGraphs ==
    {[ids |-> {IdentityDescriptor(f) : f \in AdjFps}, adjs |-> S] :
        S \in SUBSET {MkAdj(1, 2, 1), MkAdj(1, 3, 1), MkAdj(2, 3, 1)}}

\* the orders in which a graph may iterate over its adjacencies
IterationOrders(g) ==
    {o \in [1..Cardinality(g.adjs) -> g.adjs] :
        \A i, j \in DOMAIN o : i # j => o[i] # o[j]}

\* rg.adjacencies(&fp).into_iter().flatten(): those of fp in iteration order
adjacencies_iter(order, fp) ==
    LET touches(a) == a.left = fp \/ a.right = fp IN SelectSeq(order, touches)

\* flat_map over fps
RECURSIVE flat_map_adjacencies(_, _)
flat_map_adjacencies(order, fps) ==
    IF fps = <<>> THEN <<>>
    ELSE adjacencies_iter(order, Head(fps)) \o flat_map_adjacencies(order, Tail(fps))

\* Itertools::dedup: of every run of equal consecutive elements, the first
RECURSIVE dedup(_)
dedup(s) ==
    IF Len(s) <= 1 THEN s
    ELSE IF s[1] = s[2] THEN dedup(Tail(s))
    ELSE <<s[1]>> \o dedup(Tail(s))

nonAdjVars == <<peelVars, relay_graph, gossipVars, routeVars, surbVars, storeVars, netVars,
                dialVars, pairVars, backVars, debtVars, goiVars, serveVars, fwdVars,
                innerVars, signVars, linkVars, authVars,
                batchVars, sendVars, sockVars>>

\* LinkProtocolImpl::adjacencies(fps)
adjacencies_rpc(fps, order) ==
    /\ adj_rpc' = Some([fps |-> fps,
                        reply |-> dedup(flat_map_adjacencies(order, fps))])
    /\ UNCHANGED nonAdjVars

InitAdj ==
    /\ PeelAtRest
    /\ global_identity = Some(MyFp)
    /\ relay_graph \in AdjGraphs
    /\ neigh_table = <<>>
    /\ gossip_pc = <<>>
    /\ sign_rpc = [fp \in Fingerprints |-> "none"]
    /\ adj_paths = {}
    /\ RouteAtRest
    /\ SurbAtRest
    /\ StoreAtRest
    /\ ExtAtRest

NextAdj ==
    \E fps \in FpsRequests, order \in IterationOrders(relay_graph) :
        adjacencies_rpc(fps, order)

SpecAdj == InitAdj /\ [][NextAdj]_vars

\* C33: the answer to adjacencies(fps) holds every adjacency that touches a
\* fingerprint of fps, and holds none twice
C33_AdjacenciesAnswersEachOnce ==
    adj_rpc # None =>
        LET fps == adj_rpc[1].fps
            reply == adj_rpc[1].reply
        IN  /\ {reply[i] : i \in DOMAIN reply} =
                   UNION {adjacencies(relay_graph, fps[k]) : k \in DOMAIN fps}
            /\ \A i, j \in DOMAIN reply : i # j => reply[i] # reply[j]

(***************************************************************************)
(* N2rSocket::send_to and send_batcher_loop (socket/n2r_socket.rs).  A      *)
(* message is (id, length of its body, destination endpoint); ids number    *)
(* the messages in the order send_to accepted them.                         *)
(***************************************************************************)
MaxMsgs == 3
LIMIT == 8192
OVERHEAD == 10
BodyLens == {4000, 5000}
Endpoints == {1, 2}

\* HashMap::new() / batches.clear()
NoBatches == [e \in {} |-> <<>>]

\* batches.entry(dest).or_default().push_back(msg), for every message of msgs
RECURSIVE push_all(_, _)
push_all(b, msgs) ==
    IF msgs = <<>> THEN b
    ELSE LET m == Head(msgs)
             dest == m[3]
             b1 == IF dest \in DOMAIN b THEN [b EXCEPT ![dest] = Append(@, m)]
                   ELSE b @@ (dest :> <<m>>)
         IN  push_all(b1, Tail(msgs))

\* the while loop that fills subbatch: how many messages from the front of
\* batch are taken before one makes the size exceed LIMIT
RECURSIVE taken(_, _)
taken(batch, current_size) ==
    IF batch = <<>> THEN 0
    ELSE LET next_size == current_size + Head(batch)[2] + OVERHEAD
         IN  IF next_size > LIMIT THEN 0 ELSE 1 + taken(Tail(batch), next_size)

nonBatchVars == <<peelVars, relay_graph, gossipVars, routeVars, surbVars, storeVars, netVars,
                  dialVars, pairVars, backVars, debtVars, goiVars, serveVars, fwdVars,
                  innerVars, signVars, linkVars, authVars, adjVars,
                  sendVars, sockVars>>

\* N2rSocket::send_to(body, endpoint)
send_to(len, endpoint) ==
    /\ accepted < MaxMsgs
    /\ accepted' = accepted + 1
    /\ send_outgoing' = Append(send_outgoing, <<accepted + 1, len, endpoint>>)
    /\ UNCHANGED <<batches, batch_todo, sent_batches, nonBatchVars>>

\* send_batcher_loop after its timer: recv, then try_recv while messages are
\* immediately available
batcher_recv ==
    /\ batch_todo = {}
    /\ send_outgoing # <<>>
    /\ \E n \in 1..Len(send_outgoing) :
          /\ batches' = push_all(NoBatches, SubSeq(send_outgoing, 1, n))
          /\ send_outgoing' = SubSeq(send_outgoing, n + 1, Len(send_outgoing))
          /\ batch_todo' = DOMAIN batches'
    /\ UNCHANGED <<sent_batches, accepted, nonBatchVars>>

\* one iteration of `for (endpoint, batch) in batches.iter_mut()`: the
\* sub-batch is filled and handed to send_message; after the last iteration,
\* or when send_message fails and the respawned loop starts over, batches is
\* cleared
batcher_send(endpoint, ok) ==
    /\ endpoint \in batch_todo
    /\ LET batch == batches[endpoint]
           n == taken(batch, 0)
           subbatch == SubSeq(batch, 1, n)
           rest == [batches EXCEPT ![endpoint] = SubSeq(batch, n + 1, Len(batch))]
       IN  /\ sent_batches' = Append(sent_batches, <<endpoint, subbatch>>)
           /\ IF ok /\ batch_todo # {endpoint}
              THEN /\ batches' = rest
                   /\ batch_todo' = batch_todo \ {endpoint}
              ELSE /\ batches' = NoBatches
                   /\ batch_todo' = {}
    /\ UNCHANGED <<send_outgoing, accepted, nonBatchVars>>

NextBatch ==
    \/ \E len \in BodyLens, endpoint \in Endpoints : send_to(len, endpoint)
    \/ batcher_recv
    \/ \E endpoint \in Endpoints, ok \in BOOLEAN : batcher_send(endpoint, ok)

SpecBatch == InitPeel /\ [][NextBatch]_vars

\* the ids of the messages of a sequence
ids_of(msgs) == {msgs[i][1] : i \in DOMAIN msgs}

\* number of send_message calls whose sub-batch holds message id
times_sent(id) ==
    Cardinality({i \in DOMAIN sent_batches : id \in ids_of(sent_batches[i][2])})

\* message id waits in the channel or in batches
is_kept(id) ==
    \/ id \in ids_of(send_outgoing)
    \/ \E e \in DOMAIN batches : id \in ids_of(batches[e])

\* total size of a sub-batch: body length + OVERHEAD per member
RECURSIVE batch_size(_)
batch_size(msgs) ==
    IF msgs = <<>> THEN 0 ELSE Head(msgs)[2] + OVERHEAD + batch_size(Tail(msgs))

\* C38: every message send_to accepted either was handed to send_message in
\* exactly one batch or is kept for a later one; the batches of an endpoint
\* carry its messages in the order accepted, and none exceeds LIMIT
C38_EveryMessageSentOnceOrKept ==
    /\ \A id \in 1..accepted :
          \/ times_sent(id) = 1 /\ ~is_kept(id)
          \/ times_sent(id) = 0 /\ is_kept(id)
    /\ \A i \in DOMAIN sent_batches :
          /\ batch_size(sent_batches[i][2]) <= LIMIT
          /\ \A k \in DOMAIN sent_batches[i][2] : sent_batches[i][2][k][3] = sent_batches[i][1]
          /\ \A j \in DOMAIN sent_batches :
                (i < j /\ sent_batches[i][1] = sent_batches[j][1]) =>
                    \A a \in ids_of(sent_batches[i][2]), b \in ids_of(sent_batches[j][2]) :
                        a < b

(***************************************************************************)
(* DaemonContext::send_message (daemon.rs), on the reply-block store that   *)
(* process_inner_pkt fills.                                                 *)
(***************************************************************************)
\* what a call may meet downstream: everything works, RawPacket::new_reply or
\* new_normal fails, or the relay graph has no route to the destination
Downstream == {"works", "packet_error", "no_route"}

\* ReplyBlockStore::pop(fp), taking the i-th block held for fp
ReplyBlockStore_pop(store, fp, i) ==
    [store EXCEPT ![fp] = SubSeq(@, 1, i - 1) \o SubSeq(@, i + 1, Len(@))]

nonSendVars == <<peelVars, relay_graph, gossipVars, routeVars, surbVars, storeVars, netVars,
                 dialVars, pairVars, backVars, debtVars, goiVars, serveVars, fwdVars,
                 incoming_send, inner_calls, signVars, linkVars, authVars, adjVars,
                 batchVars, sockVars>>

\* send_message(src_anon_id, src_dock, dst_fp, dst_dock, content); anon tells
\* whether src_anon_id is Some
send_message(anon, dst_fp, downstream) ==
    /\ IF anon_destinations[dst_fp] # <<>>
       THEN \E i \in DOMAIN anon_destinations[dst_fp] :
              /\ anon_destinations' = ReplyBlockStore_pop(anon_destinations, dst_fp, i)
              /\ sm_call' = Some([anon |-> anon, dst_fp |-> dst_fp,
                                  result |-> IF anon THEN "NoAnonId"
                                             ELSE IF downstream = "packet_error"
                                             THEN "PacketError" ELSE "Ok",
                                  injected |-> ~anon /\ downstream # "packet_error"])
       ELSE /\ UNCHANGED anon_destinations
            /\ sm_call' = Some([anon |-> anon, dst_fp |-> dst_fp,
                                result |-> CASE downstream = "no_route" -> "NoRoute"
                                             [] downstream = "packet_error" -> "PacketError"
                                             [] OTHER -> "Ok",
                                injected |-> downstream = "works"])
    /\ UNCHANGED nonSendVars

\* the batches of reply blocks that peers send
ReplyBlockBatches == {p \in InnerPackets : p[1] = "ReplyBlocks"}

NextSend ==
    \/ \E inner \in ReplyBlockBatches, source \in InnerSources :
          process_inner_pkt(inner, source)
    \/ \E anon \in BOOLEAN, dst_fp \in InnerSources, downstream \in Downstream :
          send_message(anon, dst_fp, downstream)

SpecSend == InitPeel /\ [][NextSend]_vars

\* C39: a send_message call that returns an error has removed no reply block
\* from the store and has injected no packet
C39_FailedSendLeavesStore ==
    [][\A anon \in BOOLEAN, dst_fp \in InnerSources, downstream \in Downstream :
          (send_message(anon, dst_fp, downstream) /\ sm_call'[1].result # "Ok") =>
              /\ anon_destinations' = anon_destinations
              /\ ~sm_call'[1].injected]_vars

(***************************************************************************)
(* N2rSocket::bind and the Drop of BoundDock (socket/n2r_socket.rs).  The   *)
(* sockets are numbered in the order they were bound; the queue of a socket *)
(* is named by the socket's number.                                        *)
(***************************************************************************)
MaxSockets == 4
Docks == {1, 2}
\* Endpoint::new(fingerprint, dock) of a socket of this node
Endpoint(dock) == <<MyFp, dock>>

nonSockVars == <<peelVars, relay_graph, gossipVars, routeVars, surbVars, storeVars, netVars,
                 dialVars, pairVars, backVars, debtVars, goiVars, serveVars, fwdVars,
                 innerVars, signVars, linkVars, authVars, adjVars, batchVars, sendVars>>

\* DashMap::insert(key, value): the value replaces the one held for key
DashMap_insert(map, key, value) ==
    [k \in DOMAIN map \cup {key} |-> IF k = key THEN value ELSE map[k]]

\* N2rSocket::bind(ctx, anon_id, dock): with dock = None a dock is drawn until
\* socket_recv_queues has no entry for it; the new socket's queue is inserted
bind(dock) ==
    /\ binds < MaxSockets
    /\ \E d \in Docks :
          /\ IF dock = None THEN Endpoint(d) \notin DOMAIN socket_recv_queues
             ELSE d = dock[1]
          /\ socket_recv_queues' = DashMap_insert(socket_recv_queues, Endpoint(d), binds + 1)
          /\ bound_dock' = bound_dock @@ ((binds + 1) :> Endpoint(d))
    /\ binds' = binds + 1
    /\ UNCHANGED nonSockVars

\* the last clone of socket s is dropped: Drop for BoundDock removes the
\* entry of its endpoint
drop_socket(s) ==
    /\ s \in DOMAIN bound_dock
    /\ socket_recv_queues' = Drop(socket_recv_queues, bound_dock[s])
    /\ bound_dock' = Drop(bound_dock, s)
    /\ UNCHANGED <<binds, nonSockVars>>

NextSock ==
    \/ \E dock \in Option(Docks) : bind(dock)
    \/ \E s \in 1..MaxSockets : drop_socket(s)

SpecSock == InitPeel /\ [][NextSock]_vars

\* C40: while a socket is alive, socket_recv_queues maps its endpoint to its
\* queue, and an endpoint is registered only while a socket bound to it lives
C40_LiveSocketIsRegistered ==
    /\ \A s \in DOMAIN bound_dock :
          /\ bound_dock[s] \in DOMAIN socket_recv_queues
          /\ socket_recv_queues[bound_dock[s]] = s
    /\ \A e \in DOMAIN socket_recv_queues :
          \E s \in DOMAIN bound_dock : bound_dock[s] = e

=============================================================================
